---- MODULE Spec2Model ----
(***************************************************************************)
(* Meta-Tags-Generator: the reactive update pipeline.                      *)
(*   EventBus      src/js/modules/EventBus.js                              *)
(*   StateManager  src/js/modules/StateManager.js                          *)
(*   MetaTagsApp   src/unnamed/part_001 (the orchestrator)                 *)
(* Each component has its own specification (SpecBus, SpecState, SpecApp)  *)
(* over the variables of the module; a specification leaves the variables  *)
(* of the other components at their constructed values.                    *)
(***************************************************************************)
EXTENDS Integers, Sequences, FiniteSets, TLC

VARIABLES
    \* ---- EventBus fields (EventBus.js:7-13)
    events,         \* Map eventName -> array of {callback, priority}
    onceEvents,     \* Map eventName -> array of callbacks
    middleware,     \* array of middleware functions
    eventHistory,   \* array of recorded events (names)
    \* ---- the running emit / emitAsync call (its locals and position)
    pc,             \* "idle" or the loop the dispatch is in
    mode,           \* "sync" (emit) or "async" (emitAsync)
    curName,        \* the eventName of the running / last dispatch
    iterArr,        \* the array being iterated when it is no longer the map's
    iterLive,       \* TRUE while the iterated array is the one held by the map
    idx,            \* index of the next element of the for-of loop
    stopped,        \* event.propagationStopped
    awaiting,       \* index of the middleware whose result emitAsync awaits (0: none)
    \* ---- promises
    promises,       \* emitAsync's promises array: ids and their state
    asyncState,     \* state of the promise returned by emitAsync
    waitState,      \* state of the promise returned by waitFor
    waitTimer,      \* TRUE while waitFor's setTimeout is pending
    \* ---- observation (what a test harness would record)
    log,            \* callbacks invoked by the running / last dispatch
    startIds,       \* subscriptions registered for the event when it was emitted
    touched,        \* a listener changed the registry during the dispatch
    mwAtEmit,       \* the middleware array as it was at the last emit
    emitThrew,      \* the last emit threw
    waitBase,       \* listenerCount(eventName) before waitFor was called
    waitLate,       \* the waitFor handler ran after the promise was settled
    nextId,         \* subscriptions made so far (identifies a subscription)
    handles,        \* the unsubscribe functions on has returned: () => off(name, callback)
    emits,          \* emits made so far
    dropped         \* subscriptions a callback took off, and during which emit

busVars == <<events, onceEvents, middleware, eventHistory, pc, mode, curName,
             iterArr, iterLive, idx, stopped, awaiting, promises, asyncState, waitState,
             waitTimer, log, startIds, touched, mwAtEmit, emitThrew, waitBase,
             waitLate, nextId, handles, emits, dropped>>

VARIABLES
    \* ---- StateManager fields (StateManager.js:7-12)
    state,          \* this.state: key -> value (Absent when the key is not there)
    subscribers,    \* this.subscribers: key -> array of callbacks
    history,        \* this.history: array of entries
    setChain,       \* the middlewares use has wrapped around this.set, innermost first
    computes,       \* per subscription: the key its callback sets (computed), or NoName
    \* ---- StateManager.batch (its locals and the notify it installs)
    notifyMode,     \* what this.notify is: "deliver", "collect" or "lost"
    savedMode,      \* originalNotify of the running batch
    collected,      \* the notifications array of the running batch
    inBatch,        \* updateFn is running
    \* ---- observation
    delivered,      \* the callbacks called by the last call, with their arguments
    changes,        \* the changes made inside the running / last batch
    snapshots,      \* the state as it was before each call that is in history
    lastCall,       \* the last call made
    undoResult,     \* what the last undo() returned
    undoTarget,     \* the state before the call the last undo() took back
    undoEntry,      \* the entry the last undo() popped
    subCount,       \* subscribe calls made so far
    calls           \* calls made so far that the bound of the model counts

smVars == <<state, subscribers, history, setChain, computes, notifyMode, savedMode, collected,
            inBatch, delivered, changes, snapshots, lastCall, undoResult,
            undoTarget, undoEntry, subCount, calls>>

VARIABLES
    \* ---- MetaTagsApp fields (part_001:24-37) and the objects they refer to
    objects,        \* the objects created so far, each a map field -> string
    formData,       \* this.formData: a reference (an index of objects)
    currentCategory,\* this.currentCategory
    \* ---- the page and the storage
    inputs,         \* the fields rendered in #formContainer, with their values
    fieldErrors,    \* the rendered fields that show a .form-error
    codeOutput,     \* #codeOutput.textContent
    livePreview,    \* #livePreview.innerHTML
    metaStats,      \* #metaStats.innerHTML
    toast,          \* the toast shown last
    storage,        \* what StorageManager holds under 'metaFormData'
    \* ---- the running event handler
    todo,           \* its statements that are still to be executed
    op,             \* the event it handles (or handled last)
    payload,        \* the data of that event
    \* ---- observation
    trace,          \* the statements the running / last handler has executed
    processed       \* user events so far

appVars == <<objects, formData, currentCategory, inputs, fieldErrors,
             codeOutput, livePreview, metaStats, toast, storage, todo, op,
             payload, trace, processed>>

VARIABLES
    \* ---- the clock and the timers of the page (setTimeout / clearTimeout)
    clock,          \* Date.now()
    timeouts,       \* the pending timeouts: id, due time, and what they run
    nextTimeout,    \* timeouts created so far (identifies a timeout)
    \* ---- EventBus.debounce closures (EventBus.js:282-291)
    timeoutId,      \* subscription id -> the closure's timeoutId (0: undefined)
    \* ---- EventBus.throttle closures (EventBus.js:296-308)
    inThrottle,     \* subscription id -> the closure's inThrottle
    \* ---- StorageManager fields (PreviewManager.js:399-403)
    stored,         \* this.storage: key -> the serialized entry, or Absent
    expirationTimes,\* this.expirationTimes: key -> expiration (0: no entry)
    \* ---- observation
    ran,            \* the debounced / throttled callbacks run so far: when, with what
    lastTrigger,    \* subscription id -> its last trigger: when, with what
    bursts,         \* subscription id -> triggers that found no timer pending
    returned,       \* the last StorageManager call and what it returned
    lastSave,       \* key -> the last save of the key not yet removed or cleared
    storageCalls    \* StorageManager calls so far

timeVars == <<clock, timeouts, nextTimeout, timeoutId, inThrottle, stored, expirationTimes,
              ran, lastTrigger, bursts, returned, lastSave, storageCalls>>

VARIABLES
    \* ---- a field-value map and what a function of it returned
    form,           \* the map given to validateForm / generate / calculateSEOScore
    result          \* the call made last on the map, and what it returned

formVars == <<form, result>>

VARIABLES
    \* ---- ToastNotification fields (ToastNotification.js:7-12) and its timers
    toasts,         \* this.toasts: the toast elements tracked, oldest first
    attached,       \* the toast elements that are children of the container
    toastTimers,    \* the pending timeouts of show / remove, in creation order
    toastCount,     \* toast elements created so far (identifies an element)
    container,      \* this.container: init() found #toastContainer on the page
    confirms        \* the attached toasts made by confirm, and the button clicked last

toastVars == <<toasts, attached, toastTimers, toastCount, container, confirms>>

VARIABLES
    \* ---- the page around the application
    previewType,    \* the value of the select #previewType
    validatorLoaded \* window.validator.isURL exists (validator.js was loaded)

envVars == <<previewType, validatorLoaded>>

vars == <<busVars, smVars, appVars, timeVars, formVars, toastVars, envVars>>
otherThanBus == <<smVars, appVars, timeVars, formVars, toastVars, envVars>>
otherThanState == <<busVars, appVars, timeVars, formVars, toastVars, envVars>>

----------------------------------------------------------------------------
(* Bounds of the model *)
MaxSubs == 3
MaxEmits == 2
MaxMiddleware == 1

(* Program constants *)
maxHistory == 100

WILDCARD == "*"
EmitNames == {"e"}
EventNames == EmitNames \cup {WILDCARD}
NoName == ""    \* a call without an event name
Priorities == {0, 10}
HighPriority == 10

(* What a callback does when it is invoked. *)
Behaviour ==
    [ a |-> "plain",      \* returns normally
      t |-> "throw",      \* throws synchronously
      s |-> "stop",       \* calls eventBus.stopPropagation(event)
      n |-> "sub",        \* calls eventBus.on(eventName, a, HighPriority)
      u |-> "unsub",      \* calls eventBus.off(eventName, a)
      r |-> "reject",     \* returns a rejected promise
      p |-> "slow",       \* returns a promise that resolves later
      w |-> "wait" ]      \* the handler of waitFor
UserCallbacks == {"a", "t", "s", "n", "u", "r", "p"}
MiddlewareKinds == {"pass", "veto"}


----------------------------------------------------------------------------
(* EventBus: pure helpers *)

Listener(cb, prio, id) == [callback |-> cb, priority |-> prio, id |-> id]

Ids(arr) == {arr[i].id : i \in 1..Len(arr)}

(* A sort that puts a listener before the listeners of equal priority that were
   subscribed earlier: what an unstable sort may do. *)
RECURSIVE SortByPriorityUnstable(_)
SortByPriorityUnstable(arr) ==
    IF Len(arr) <= 1 THEN arr
    ELSE LET init == SortByPriorityUnstable(SubSeq(arr, 1, Len(arr) - 1))
             x == arr[Len(arr)]
             k == Cardinality({i \in 1..Len(init) : init[i].priority > x.priority})
         IN SubSeq(init, 1, k) \o <<x>> \o SubSeq(init, k + 1, Len(init))

(* listeners.sort((a, b) => b.priority - a.priority): Array.prototype.sort is
   stable, so each element goes after the earlier elements of priority >= its own. *)
RECURSIVE SortByPriority(_)
SortByPriority(arr) ==
    IF Len(arr) <= 1 THEN arr
    ELSE LET init == SortByPriority(SubSeq(arr, 1, Len(arr) - 1))
             x == arr[Len(arr)]
             k == Cardinality({i \in 1..Len(init) : init[i].priority >= x.priority})
         IN SubSeq(init, 1, k) \o <<x>> \o SubSeq(init, k + 1, Len(init))

(* on(eventName, callback, priority): push, then sort the array in place. *)
EventsAfterOn(evts, name, cb, prio, id) ==
    [evts EXCEPT ![name] = SortByPriority(Append(@, Listener(cb, prio, id)))]

(* An off that removes nothing. *)
EventsAfterOffNothing(evts, name, cb) == evts

(* off(eventName, callback): keeps the listeners of every other callback. *)
EventsAfterOff(evts, name, cb) ==
    [evts EXCEPT ![name] = SelectSeq(@, LAMBDA l : l.callback # cb)]

(* the unsubscribe handle of once: indexOf + splice(index, 1). *)
OnceAfterUnsubscribe(onc, name, cb) ==
    LET arr == onc[name]
        hits == {i \in 1..Len(arr) : arr[i].callback = cb}
    IN IF hits = {} THEN onc
       ELSE LET i == CHOOSE j \in hits : \A k \in hits : j <= k
            IN [onc EXCEPT ![name] = SubSeq(arr, 1, i - 1) \o SubSeq(arr, i + 1, Len(arr))]

listenerCount(evts, onc, name) == Len(evts[name]) + Len(onc[name])

(* addToHistory: push, and shift the oldest when over maxHistory. *)
AddToHistory(h, name) ==
    LET pushed == Append(h, name)
    IN IF Len(pushed) > maxHistory THEN Tail(pushed) ELSE pushed

(* A middleware that never cancels. *)
CancelledNever(mws) == FALSE

(* the middleware loop: the emit returns at the first result === false. *)
Cancelled(mws) == \E i \in 1..Len(mws) : mws[i] = "veto"

(* A dispatch without any try/catch. *)
CatchesNothing(m) == FALSE

(* emit wraps every callback in try/catch; emitAsync calls it bare. *)
Catches(m) == m = "sync"

----------------------------------------------------------------------------
(* EventBus: the position of a dispatch *)

Position(p, arr, live, onc) == [pc |-> p, arr |-> arr, live |-> live, once |-> onc]

(* after the once loop: the wildcard loop of emit; emitAsync has none. *)
AfterOnce(evts, onc, m) ==
    IF m = "sync" /\ Len(evts[WILDCARD]) > 0
    THEN Position("wildcard", <<>>, TRUE, onc)
    ELSE Position("idle", <<>>, FALSE, onc)

(* after the regular loop: the once callbacks are taken out of the map before
   the loop over them, which breaks at once when propagation is stopped. *)
AfterRegular(evts, onc, name, stp, m) ==
    LET callbacks == onc[name]
        cleared == [onc EXCEPT ![name] = <<>>]
    IN IF Len(callbacks) > 0 /\ ~stp
       THEN Position("once", callbacks, FALSE, cleared)
       ELSE AfterOnce(evts, cleared, m)

(* after the middleware loop *)
StartDispatch(evts, onc, name, m) ==
    IF Len(evts[name]) > 0
    THEN Position("regular", <<>>, TRUE, onc)
    ELSE AfterRegular(evts, onc, name, FALSE, m)

IterName(p, name) == IF p = "wildcard" THEN WILDCARD ELSE name

IterArray(p, evts, arr, live, name) ==
    IF live THEN evts[IterName(p, name)] ELSE arr

(* the loop test after a callback returned, at index i of the iterated array *)
Continue(p, evts, onc, arr, live, i, name, stp, m) ==
    LET more == i <= Len(IterArray(p, evts, arr, live, name))
    IN CASE p = "regular" ->
              IF more /\ ~stp THEN Position(p, arr, live, onc)
              ELSE AfterRegular(evts, onc, name, stp, m)
         [] p = "once" ->
              IF more /\ ~stp THEN Position(p, arr, live, onc)
              ELSE AfterOnce(evts, onc, m)
         [] OTHER ->
              IF more THEN Position(p, arr, live, onc)
              ELSE Position("idle", <<>>, FALSE, onc)

(* the promise emitAsync returns, once its loops are done *)
AllSettled(ps) ==
    IF ps.rejected THEN "rejected"
    ELSE IF ps.pending = {} THEN "resolved" ELSE "pending"

NoPromises == [pending |-> {}, rejected |-> FALSE]


----------------------------------------------------------------------------
(* EventBus: construction *)

(* no middleware, no history, no dispatch running, no promise pending *)
InitDispatch ==
    /\ middleware = <<>>
    /\ eventHistory = <<>>
    /\ pc = "idle"
    /\ mode = "sync"
    /\ curName = "e"
    /\ iterArr = <<>>
    /\ iterLive = FALSE
    /\ idx = 1
    /\ stopped = FALSE
    /\ awaiting = 0
    /\ promises = NoPromises
    /\ asyncState = "none"
    /\ waitState = "none"
    /\ waitTimer = FALSE
    /\ log = <<>>
    /\ startIds = [regular |-> {}, once |-> {}, wildcard |-> {}]
    /\ touched = FALSE
    /\ mwAtEmit = <<>>
    /\ emitThrew = FALSE
    /\ waitBase = 0
    /\ waitLate = FALSE
    /\ emits = 0
    /\ dropped = {}

InitBus ==
    /\ events = [n \in EventNames |-> <<>>]
    /\ onceEvents = [n \in EventNames |-> <<>>]
    /\ nextId = 0
    /\ handles = {}
    /\ InitDispatch

dispatchVars == <<pc, mode, curName, iterArr, iterLive, idx, stopped, awaiting, log,
                  startIds, touched, mwAtEmit, emitThrew, dropped>>
waitVars == <<waitState, waitTimer, waitBase, waitLate>>

(* EventBus: the calls made from outside a dispatch *)

(* on(name, callback, priority): what it does to the registry *)
on(name, cb, prio) ==
    /\ pc = "idle"
    /\ nextId < MaxSubs
    /\ events' = EventsAfterOn(events, name, cb, prio, nextId + 1)
    /\ nextId' = nextId + 1
    /\ UNCHANGED <<onceEvents, middleware, eventHistory, dispatchVars, promises,
                   asyncState, waitVars, emits>>
    /\ UNCHANGED otherThanBus

(* a call of on whose caller keeps the function it returns *)
On(name, cb, prio) ==
    /\ on(name, cb, prio)
    /\ handles' = handles \cup {[id |-> nextId + 1, name |-> name, callback |-> cb]}

(* a call of on whose caller drops the function it returns, as the
   application does (part_001:121-130): nothing can call it later *)
Listen(name, cb, prio) ==
    /\ on(name, cb, prio)
    /\ handles' = handles

Once(name, cb) ==
    /\ pc = "idle"
    /\ nextId < MaxSubs
    /\ onceEvents' = [onceEvents EXCEPT ![name] = Append(@, Listener(cb, 0, nextId + 1))]
    /\ nextId' = nextId + 1
    /\ handles' = handles
    /\ UNCHANGED <<events, middleware, eventHistory, dispatchVars, promises,
                   asyncState, waitVars, emits>>
    /\ UNCHANGED otherThanBus

Off(name, cb) ==
    /\ pc = "idle"
    /\ \E i \in 1..Len(events[name]) : events[name][i].callback = cb
    /\ events' = EventsAfterOff(events, name, cb)
    /\ UNCHANGED <<onceEvents, middleware, eventHistory, dispatchVars, promises,
                   asyncState, waitVars, nextId, handles, emits>>
    /\ UNCHANGED otherThanBus

(* the function returned by on(name, callback, priority) for the
   subscription id: () => this.off(name, callback). It closes over the name
   and the callback, and stays callable when the subscription is gone. *)
Unsubscribe(name, id) ==
    /\ pc = "idle"
    /\ \E h \in handles :
          /\ h.id = id
          /\ h.name = name
          /\ events' = EventsAfterOff(events, name, h.callback)
    /\ UNCHANGED <<onceEvents, middleware, eventHistory, dispatchVars, promises,
                   asyncState, waitVars, nextId, handles, emits>>
    /\ UNCHANGED otherThanBus

UnsubscribeOnce(name, cb) ==
    /\ pc = "idle"
    /\ \E i \in 1..Len(onceEvents[name]) : onceEvents[name][i].callback = cb
    /\ onceEvents' = OnceAfterUnsubscribe(onceEvents, name, cb)
    /\ UNCHANGED <<events, middleware, eventHistory, dispatchVars, promises,
                   asyncState, waitVars, nextId, handles, emits>>
    /\ UNCHANGED otherThanBus

Use(kind) ==
    /\ pc = "idle"
    /\ Len(middleware) < MaxMiddleware
    /\ middleware' = Append(middleware, kind)
    /\ UNCHANGED <<events, onceEvents, eventHistory, dispatchVars, promises,
                   asyncState, waitVars, nextId, handles, emits>>
    /\ UNCHANGED otherThanBus

(* emit / emitAsync up to the first callback: the event is recorded, the
   middleware loop runs, and the first loop that has something to do is entered.
   emitAsync awaits the result of each middleware: with a middleware installed
   it records the event, calls the first one and returns its pending promise;
   Resume continues it. One dispatch is followed at a time. *)
Emit(name, m) ==
    /\ pc = "idle"
    /\ awaiting = 0
    /\ emits < MaxEmits
    /\ m = "async" => asyncState # "pending"
    /\ emits' = emits + 1
    /\ dropped' = dropped
    /\ eventHistory' = AddToHistory(eventHistory, name)
    /\ mode' = m
    /\ curName' = name
    /\ log' = <<>>
    /\ stopped' = FALSE
    /\ touched' = FALSE
    /\ emitThrew' = FALSE
    /\ idx' = 1
    /\ startIds' = [regular |-> Ids(events[name]),
                     once |-> Ids(onceEvents[name]),
                     wildcard |-> IF m = "sync" THEN Ids(events[WILDCARD]) ELSE {}]
    /\ mwAtEmit' = IF m = "async" THEN <<>> ELSE middleware
    /\ IF m = "async" /\ Len(middleware) > 0
       THEN /\ pc' = "idle"
            /\ awaiting' = 1
            /\ iterArr' = <<>>
            /\ iterLive' = FALSE
            /\ onceEvents' = onceEvents
            /\ promises' = NoPromises
            /\ asyncState' = "pending"
       ELSE IF Cancelled(middleware)
       THEN /\ pc' = "idle"
            /\ awaiting' = 0
            /\ iterArr' = <<>>
            /\ iterLive' = FALSE
            /\ onceEvents' = onceEvents
            /\ promises' = promises
            /\ asyncState' = IF m = "async" THEN "resolved" ELSE asyncState
       ELSE LET pos == StartDispatch(events, onceEvents, name, m)
            IN /\ pc' = pos.pc
               /\ awaiting' = 0
               /\ iterArr' = pos.arr
               /\ iterLive' = pos.live
               /\ onceEvents' = pos.once
               /\ promises' = IF m = "async" THEN NoPromises ELSE promises
               /\ asyncState' = IF m = "async"
                                THEN (IF pos.pc = "idle" THEN "resolved" ELSE "pending")
                                ELSE asyncState
    /\ UNCHANGED <<events, middleware, waitVars, nextId, handles>>
    /\ UNCHANGED otherThanBus

(* emitAsync continues after `await mw(event)`: a result of false ends it; a
   further middleware of the array is called and awaited in turn; after the
   last one the loops run over the listeners the maps hold at that moment. *)
Resume ==
    /\ pc = "idle"
    /\ awaiting > 0
    /\ mwAtEmit' = SubSeq(middleware, 1, awaiting)
    /\ IF middleware[awaiting] = "veto"
       THEN /\ awaiting' = 0
            /\ asyncState' = "resolved"
            /\ UNCHANGED <<pc, iterArr, iterLive, onceEvents, startIds>>
       ELSE IF awaiting < Len(middleware)
       THEN /\ awaiting' = awaiting + 1
            /\ UNCHANGED <<pc, iterArr, iterLive, onceEvents, startIds, asyncState>>
       ELSE LET pos == StartDispatch(events, onceEvents, curName, "async")
            IN /\ awaiting' = 0
               /\ pc' = pos.pc
               /\ iterArr' = pos.arr
               /\ iterLive' = pos.live
               /\ onceEvents' = pos.once
               /\ startIds' = [regular |-> Ids(events[curName]),
                                once |-> Ids(onceEvents[curName]),
                                wildcard |-> {}]
               /\ asyncState' = IF pos.pc = "idle" THEN "resolved" ELSE "pending"
    /\ UNCHANGED <<events, middleware, eventHistory, mode, curName, idx, stopped,
                   promises, log, touched, emitThrew, dropped, waitVars, nextId, handles,
                   emits>>
    /\ UNCHANGED otherThanBus

(* removeAllListeners(eventName): with a name, the entries of the name are
   deleted from both maps; without one, both maps are cleared. *)
RemoveAllListeners(name) ==
    /\ pc = "idle"
    /\ IF name # NoName
       THEN /\ events' = [events EXCEPT ![name] = <<>>]
            /\ onceEvents' = [onceEvents EXCEPT ![name] = <<>>]
       ELSE /\ events' = [n \in EventNames |-> <<>>]
            /\ onceEvents' = [n \in EventNames |-> <<>>]
    /\ UNCHANGED <<middleware, eventHistory, dispatchVars, promises,
                   asyncState, waitVars, nextId, handles, emits>>
    /\ UNCHANGED otherThanBus

(* clearHistory(): this.eventHistory = [] *)
ClearHistory ==
    /\ pc = "idle"
    /\ eventHistory' = <<>>
    /\ UNCHANGED <<events, onceEvents, middleware, dispatchVars, promises,
                   asyncState, waitVars, nextId, handles, emits>>
    /\ UNCHANGED otherThanBus

(* One turn of the running loop: the callback at idx is called, does what its
   behaviour says, and the loop test that follows is evaluated. *)
Invoke ==
    /\ pc # "idle"
    /\ LET arr == IterArray(pc, events, iterArr, iterLive, curName)
           l == arr[idx]
           b == Behaviour[l.callback]
           thrown == b = "throw"
           escapes == thrown /\ ~Catches(mode)
           subs == b = "sub" /\ nextId < MaxSubs
           unsubs == b = "unsub" /\ Len(events[curName]) > 0
           evts == IF subs THEN EventsAfterOn(events, curName, "a", HighPriority, nextId + 1)
                   ELSE IF unsubs THEN EventsAfterOff(events, curName, "a")
                   ELSE events
           detach == unsubs /\ iterLive /\ IterName(pc, curName) = curName
           arr2 == IF detach THEN arr ELSE iterArr
           live2 == IF detach THEN FALSE ELSE iterLive
           stp == stopped \/ b = "stop"
           ps == IF mode # "async" THEN promises
                 ELSE [pending |-> IF b = "slow" THEN promises.pending \cup {l.id}
                                   ELSE promises.pending,
                       rejected |-> promises.rejected \/ b = "reject"]
           pos == IF escapes THEN Position("idle", <<>>, FALSE, onceEvents)
                  ELSE Continue(pc, evts, onceEvents, arr2, live2, idx + 1,
                                curName, stp, mode)
       IN /\ log' = Append(log, [id |-> l.id, callback |-> l.callback,
                                priority |-> l.priority, phase |-> pc])
          /\ events' = evts
          /\ nextId' = IF subs THEN nextId + 1 ELSE nextId
          /\ handles' = handles
          /\ touched' = (touched \/ subs \/ unsubs)
          /\ dropped' = IF unsubs
                        THEN dropped \cup
                             {[id |-> events[curName][i].id, emit |-> emits] :
                                 i \in {j \in 1..Len(events[curName]) :
                                           events[curName][j].callback = "a"}}
                        ELSE dropped
          /\ stopped' = stp
          /\ emitThrew' = (emitThrew \/ (escapes /\ mode = "sync"))
          /\ promises' = ps
          /\ pc' = pos.pc
          /\ iterArr' = pos.arr
          /\ iterLive' = pos.live
          /\ onceEvents' = pos.once
          /\ idx' = IF pos.pc = pc THEN idx + 1 ELSE 1
          /\ asyncState' = IF mode # "async" THEN asyncState
                           ELSE IF escapes THEN "rejected"
                           ELSE IF pos.pc = "idle" THEN AllSettled(ps)
                           ELSE asyncState
          /\ waitTimer' = IF b = "wait" THEN FALSE ELSE waitTimer
          /\ waitState' = IF b = "wait" /\ waitState = "pending" THEN "resolved"
                          ELSE waitState
          /\ waitLate' = (waitLate \/ (b = "wait" /\ waitState # "pending"))
    /\ UNCHANGED <<middleware, eventHistory, mode, curName, startIds, mwAtEmit,
                   awaiting, waitBase, emits>>
    /\ UNCHANGED otherThanBus

(* a promise returned by a listener resolves; Promise.all follows the last one *)
SettlePromise(id) ==
    /\ pc = "idle"
    /\ id \in promises.pending
    /\ promises' = [promises EXCEPT !.pending = @ \ {id}]
    /\ asyncState' = IF asyncState = "pending" THEN AllSettled(promises') ELSE asyncState
    /\ UNCHANGED <<events, onceEvents, middleware, eventHistory, dispatchVars,
                   waitVars, nextId, handles, emits>>
    /\ UNCHANGED otherThanBus

(* waitFor(eventName, timeout): arms the timer and subscribes handler with once *)
WaitFor(name) ==
    /\ pc = "idle"
    /\ waitState = "none"
    /\ waitBase' = listenerCount(events, onceEvents, name)
    /\ onceEvents' = [onceEvents EXCEPT ![name] = Append(@, Listener("w", 0, 0))]
    /\ waitState' = "pending"
    /\ waitTimer' = TRUE
    /\ UNCHANGED <<events, middleware, eventHistory, dispatchVars, promises,
                   asyncState, waitLate, nextId, handles, emits>>
    /\ UNCHANGED otherThanBus

(* the timer of waitFor fires: this.off(eventName, handler), then reject *)
WaitTimeout(name) ==
    /\ pc = "idle"
    /\ waitTimer
    /\ events' = EventsAfterOff(events, name, "w")
    /\ waitTimer' = FALSE
    /\ waitState' = IF waitState = "pending" THEN "rejected" ELSE waitState
    /\ UNCHANGED <<onceEvents, middleware, eventHistory, dispatchVars, promises,
                   asyncState, waitBase, waitLate, nextId, handles, emits>>
    /\ UNCHANGED otherThanBus

----------------------------------------------------------------------------
(* StateManager: values *)

MaxCalls == 3
MaxSubscribers == 2
MaxStateMiddleware == 1
MaxHistoryCalls == 52

maxStateHistory == 50

Keys == {"a", "b"}
SubKeys == Keys \cup {WILDCARD}
ObjFields == {"x", "y"}

(* a value: a number, or an object with the fields that are not 0 in o *)
NoFields == [f \in ObjFields |-> 0]
Absent == [t |-> "absent", n |-> 0, o |-> NoFields]
Undefined == [t |-> "undef", n |-> 0, o |-> NoFields]
Num(k) == [t |-> "num", n |-> k, o |-> NoFields]
Obj(o) == [t |-> "obj", n |-> 0, o |-> o]

SetValues == {Num(1), Obj([x |-> 1, y |-> 0])}
Updates == {[x |-> 2, y |-> 1]}
EmptyState == [k \in Keys |-> Absent]
NewStates == {[a |-> Num(2), b |-> Absent]}

(* _.get(this.state, key) *)
Get(st, key) == IF st[key].t = "absent" THEN Undefined ELSE st[key]

(* _.set(this.state, key, value): the key is there afterwards, also with undefined *)
SetPath(st, key, value) == [st EXCEPT ![key] = value]

(* _.unset(this.state, key) *)
Unset(st, key) == [st EXCEPT ![key] = Absent]

(* { ...current, ...updates } with current = this.get(key) || {} *)
Merged(current, updates) ==
    Obj([f \in ObjFields |-> IF updates[f] # 0 THEN updates[f]
                             ELSE IF current.t = "obj" THEN current.o[f] ELSE 0])

(* addToHistory: push, shift the oldest when over maxHistory *)
(* A history that never drops an entry. *)
AddEntryUnbounded(h, entry) == Append(h, entry)

AddEntry(h, entry) ==
    LET pushed == Append(h, entry)
    IN IF Len(pushed) > maxStateHistory THEN Tail(pushed) ELSE pushed

Change(key, new, old) == [key |-> key, new |-> new, old |-> old]

(* the original notify: the callbacks of the key, then the wildcard callbacks *)
Notify(subs, c) ==
    [i \in 1..Len(subs[c.key]) |->
        [sub |-> subs[c.key][i], wild |-> FALSE, key |-> c.key,
         new |-> c.new, old |-> c.old]]
    \o
    [i \in 1..Len(subs[WILDCARD]) |->
        [sub |-> subs[WILDCARD][i], wild |-> TRUE, key |-> c.key,
         new |-> c.new, old |-> c.old]]

(* A flush that delivers one notification per key: the last one. *)
RECURSIVE FlushCoalesced(_, _)
FlushCoalesced(subs, cs) ==
    IF cs = <<>> THEN <<>>
    ELSE IF \E i \in 2..Len(cs) : cs[i].key = cs[1].key
         THEN FlushCoalesced(subs, Tail(cs))
         ELSE Notify(subs, cs[1]) \o FlushCoalesced(subs, Tail(cs))

(* notifications.forEach(n => this.notify(n.key, n.newValue, n.oldValue)) *)
RECURSIVE Flush(_, _)
Flush(subs, cs) ==
    IF cs = <<>> THEN <<>>
    ELSE Notify(subs, cs[1]) \o Flush(subs, Tail(cs))

(* this.notify(...) as it is installed: the original, the collector of the
   running batch, or the collector of a batch that is gone *)
Delivered(m, subs, c) == IF m = "deliver" THEN Notify(subs, c) ELSE <<>>
Collected(m, coll, c) == IF m = "collect" THEN Append(coll, c) ELSE coll

(* use(middleware): a middleware either calls next(), which runs the set it
   wraps, or returns without calling it *)
StateMiddlewareKinds == {"next", "block"}

(* this.set as use has wrapped it runs the set of the prototype only when
   every middleware around it calls next() *)
Blocked(chain) == \E i \in 1..Len(chain) : chain[i] = "block"

(* computed(key, computeFn) with computeFn = s => s.a: the value it computes
   and the property it reads through the proxy *)
Dependency == "a"
computeFn(st) == Get(st, Dependency)

(* the manager in the middle of a call: its state and history, and the
   callbacks called so far *)
Manager(st, hist, snaps, out) ==
    [st |-> st, hist |-> hist, snaps |-> snaps, out |-> out]

(* the notify of the prototype: each callback is called in turn; the callback
   that computed subscribed calls this.set(key, computeFn(this.state)), which
   pushes its entry, changes the state and notifies in turn *)
RECURSIVE Deliver(_, _, _, _, _)
Deliver(now, subs, comp, chain, cbs) ==
    IF cbs = <<>> THEN now
    ELSE LET called == [now EXCEPT !.out = Append(@, Head(cbs))]
             key == comp[Head(cbs).sub]
             value == computeFn(called.st)
             oldValue == Get(called.st, key)
             after ==
                 IF key = NoName \/ Blocked(chain) THEN called
                 ELSE Deliver(Manager(SetPath(called.st, key, value),
                                      AddEntry(called.hist,
                                               [type |-> "SET", key |-> key,
                                                oldValue |-> oldValue,
                                                newValue |-> value]),
                                      AddEntry(called.snaps, called.st),
                                      called.out),
                              subs, comp, chain,
                              Notify(subs, Change(key, value, oldValue)))
         IN Deliver(after, subs, comp, chain, Tail(cbs))

(* this.notify(...) as it is installed, called for change c *)
Notified(m, now, subs, comp, chain, c) ==
    IF m = "deliver" THEN Deliver(now, subs, comp, chain, Notify(subs, c)) ELSE now

(* undo's switch: the state after the popped entry is taken back *)
UndoState(st, e) ==
    CASE e.type = "SET" ->
            IF e.oldValue = Undefined THEN Unset(st, e.key)
            ELSE SetPath(st, e.key, e.oldValue)
      [] e.type = "DELETE" -> SetPath(st, e.key, e.oldValue)
      [] OTHER -> e.oldValue

(* undo's notify: (key, oldValue) or ('*', this.state), no third argument *)
UndoChange(st, e) ==
    IF e.type \in {"SET", "DELETE"}
    THEN Change(e.key, e.oldValue, Undefined)
    ELSE Change(WILDCARD, UndoState(st, e), Undefined)

----------------------------------------------------------------------------
(* StateManager: construction and calls *)

(* no history, the notify of the prototype, no batch running *)
InitManager ==
    /\ history = <<>>
    /\ setChain = <<>>
    /\ notifyMode = "deliver"
    /\ savedMode = "deliver"
    /\ collected = <<>>
    /\ inBatch = FALSE
    /\ delivered = <<>>
    /\ changes = <<>>
    /\ snapshots = <<>>
    /\ lastCall = "new"
    /\ undoResult = FALSE
    /\ undoTarget = EmptyState
    /\ undoEntry = [type |-> "NONE"]
    /\ calls = 0

InitState ==
    /\ state = EmptyState
    /\ subscribers = [k \in SubKeys |-> <<>>]
    /\ computes = <<>>
    /\ subCount = 0
    /\ InitManager

(* observation of the last call only: a call that is not undo leaves no undo
   result behind *)
NoUndo ==
    /\ undoResult' = FALSE
    /\ undoTarget' = EmptyState
    /\ undoEntry' = [type |-> "NONE"]

(* what set, delete, setState and clear share: the entry is pushed, the state
   is changed, this.notify is called *)
ApplyWith(call, entry, st, c, subs, comp) ==
    LET pushed == Manager(st, AddEntry(history, entry),
                          AddEntry(snapshots, state), <<>>)
        after == Notified(notifyMode, pushed, subs, comp, setChain, c)
    IN /\ calls' = calls + 1
       /\ history' = after.hist
       /\ snapshots' = after.snaps
       /\ state' = after.st
       /\ delivered' = (IF inBatch THEN delivered ELSE <<>>) \o after.out
       /\ collected' = Collected(notifyMode, collected, c)
       /\ changes' = IF inBatch THEN Append(changes, c) ELSE <<>>
       /\ lastCall' = call
       /\ NoUndo
       /\ UNCHANGED <<setChain, notifyMode, savedMode, inBatch>>
       /\ UNCHANGED otherThanState

Apply(call, entry, st, c) ==
    /\ ApplyWith(call, entry, st, c, subscribers, computes)
    /\ UNCHANGED <<subscribers, computes, subCount>>

(* a call of this.set that a middleware did not pass on: nothing is recorded,
   nothing changes, nobody is notified *)
SetBlocked ==
    /\ calls' = calls + 1
    /\ lastCall' = "blocked"
    /\ delivered' = IF inBatch THEN delivered ELSE <<>>
    /\ changes' = IF inBatch THEN changes ELSE <<>>
    /\ NoUndo
    /\ UNCHANGED <<state, subscribers, history, setChain, computes, notifyMode,
                   savedMode, collected, inBatch, snapshots, subCount>>
    /\ UNCHANGED otherThanState

Mutate(call, entry, st, c) ==
    /\ calls < MaxCalls
    /\ Apply(call, entry, st, c)

(* set('a', n + 1), n being the number under 'a' (0 when there is none) *)
SetNext ==
    LET oldValue == Get(state, "a")
        value == Num(IF oldValue = Undefined THEN 1 ELSE oldValue.n + 1)
    IN /\ calls < MaxHistoryCalls
       /\ IF Blocked(setChain) THEN SetBlocked
          ELSE Apply("set",
                     [type |-> "SET", key |-> "a", oldValue |-> oldValue,
                      newValue |-> value],
                     SetPath(state, "a", value),
                     Change("a", value, oldValue))

Set(key, value) ==
    LET oldValue == Get(state, key)
    IN IF Blocked(setChain) THEN calls < MaxCalls /\ SetBlocked
       ELSE Mutate("set",
                   [type |-> "SET", key |-> key, oldValue |-> oldValue,
                    newValue |-> value],
                   SetPath(state, key, value),
                   Change(key, value, oldValue))

Update(key, updates) == Set(key, Merged(Get(state, key), updates))

Delete(key) ==
    LET oldValue == Get(state, key)
    IN Mutate("delete",
              [type |-> "DELETE", key |-> key, oldValue |-> oldValue],
              Unset(state, key),
              Change(key, Undefined, oldValue))

SetState(newState) ==
    Mutate("setState",
           [type |-> "REPLACE_STATE", oldValue |-> state, newValue |-> newState],
           newState,
           Change(WILDCARD, newState, state))

Clear ==
    Mutate("clear",
           [type |-> "CLEAR", oldValue |-> state],
           EmptyState,
           Change(WILDCARD, EmptyState, state))

Undo ==
    /\ lastCall' = "undo"
    /\ IF history = <<>>
       THEN /\ undoResult' = FALSE
            /\ undoEntry' = [type |-> "NONE"]
            /\ undoTarget' = EmptyState
            /\ delivered' = IF inBatch THEN delivered ELSE <<>>
            /\ changes' = IF inBatch THEN changes ELSE <<>>
            /\ UNCHANGED <<state, history, snapshots, collected>>
       ELSE LET lastChange == history[Len(history)]
                c == UndoChange(state, lastChange)
                popped == Manager(UndoState(state, lastChange),
                                  SubSeq(history, 1, Len(history) - 1),
                                  SubSeq(snapshots, 1, Len(snapshots) - 1), <<>>)
                after == Notified(notifyMode, popped, subscribers, computes,
                                  setChain, c)
            IN /\ undoResult' = TRUE
               /\ undoEntry' = lastChange
               /\ history' = after.hist
               /\ snapshots' = after.snaps
               /\ undoTarget' = snapshots[Len(snapshots)]
               /\ state' = after.st
               /\ delivered' = (IF inBatch THEN delivered ELSE <<>>) \o after.out
               /\ collected' = Collected(notifyMode, collected, c)
               /\ changes' = IF inBatch THEN Append(changes, c) ELSE <<>>
    /\ UNCHANGED <<subscribers, setChain, computes, notifyMode, savedMode,
                   inBatch, subCount, calls>>
    /\ UNCHANGED otherThanState

Subscribe(key) ==
    /\ subCount < MaxSubscribers
    /\ subCount' = subCount + 1
    /\ subscribers' = [subscribers EXCEPT ![key] = Append(@, subCount + 1)]
    /\ computes' = Append(computes, NoName)
    /\ lastCall' = "subscribe"
    /\ delivered' = IF inBatch THEN delivered ELSE <<>>
    /\ changes' = IF inBatch THEN changes ELSE <<>>
    /\ NoUndo
    /\ UNCHANGED <<state, history, setChain, notifyMode, savedMode, collected,
                   inBatch, snapshots, calls>>
    /\ UNCHANGED otherThanState

(* unsubscribe(key, callback), also the function subscribe returned:
   the array of the key is filtered *)
StateUnsubscribe(key, sub) ==
    /\ calls < MaxCalls
    /\ calls' = calls + 1
    /\ \E i \in 1..Len(subscribers[key]) : subscribers[key][i] = sub
    /\ subscribers' = [subscribers EXCEPT ![key] = SelectSeq(@, LAMBDA cb : cb # sub)]
    /\ lastCall' = "unsubscribe"
    /\ delivered' = IF inBatch THEN delivered ELSE <<>>
    /\ changes' = IF inBatch THEN changes ELSE <<>>
    /\ NoUndo
    /\ UNCHANGED <<state, history, setChain, computes, notifyMode, savedMode,
                   collected, inBatch, snapshots, subCount>>
    /\ UNCHANGED otherThanState

(* use(middleware): this.set becomes a wrapper around the set it was *)
StateUse(kind) ==
    /\ Len(setChain) < MaxStateMiddleware
    /\ calls < MaxCalls
    /\ calls' = calls + 1
    /\ setChain' = Append(setChain, kind)
    /\ lastCall' = "use"
    /\ delivered' = IF inBatch THEN delivered ELSE <<>>
    /\ changes' = IF inBatch THEN changes ELSE <<>>
    /\ NoUndo
    /\ UNCHANGED <<state, subscribers, history, computes, notifyMode, savedMode,
                   collected, inBatch, snapshots, subCount>>
    /\ UNCHANGED otherThanState

(* computed(key, s => s.a): the value is computed, a callback that sets the
   key again is subscribed to the property read, and the key is set *)
Computed(key) ==
    LET value == computeFn(state)
        oldValue == Get(state, key)
        subs == [subscribers EXCEPT ![Dependency] = Append(@, subCount + 1)]
        comp == Append(computes, key)
    IN /\ key # Dependency
       /\ subCount < MaxSubscribers
       /\ calls < MaxCalls
       /\ subCount' = subCount + 1
       /\ subscribers' = subs
       /\ computes' = comp
       /\ IF Blocked(setChain)
          THEN /\ calls' = calls + 1
               /\ lastCall' = "computed"
               /\ delivered' = IF inBatch THEN delivered ELSE <<>>
               /\ changes' = IF inBatch THEN changes ELSE <<>>
               /\ NoUndo
               /\ UNCHANGED <<state, history, setChain, notifyMode, savedMode,
                              collected, inBatch, snapshots>>
               /\ UNCHANGED otherThanState
          ELSE ApplyWith("computed",
                         [type |-> "SET", key |-> key, oldValue |-> oldValue,
                          newValue |-> value],
                         SetPath(state, key, value),
                         Change(key, value, oldValue), subs, comp)

(* batch(updateFn) up to the call of updateFn: notify is replaced *)
BatchBegin ==
    /\ ~inBatch
    /\ calls < MaxCalls
    /\ inBatch' = TRUE
    /\ savedMode' = notifyMode
    /\ notifyMode' = "collect"
    /\ collected' = <<>>
    /\ delivered' = <<>>
    /\ changes' = <<>>
    /\ lastCall' = "batch"
    /\ NoUndo
    /\ UNCHANGED <<state, subscribers, history, setChain, computes, snapshots,
                   subCount, calls>>
    /\ UNCHANGED otherThanState

(* updateFn returned: notify is restored and the notifications are sent *)
BatchEnd ==
    LET now == Manager(state, history, snapshots, <<>>)
        after == IF savedMode = "deliver"
                 THEN Deliver(now, subscribers, computes, setChain,
                              Flush(subscribers, collected))
                 ELSE now
    IN /\ inBatch
       /\ inBatch' = FALSE
       /\ notifyMode' = savedMode
       /\ delivered' = after.out
       /\ state' = after.st
       /\ history' = after.hist
       /\ snapshots' = after.snaps
       /\ collected' = <<>>
       /\ lastCall' = "batchReturned"
       /\ NoUndo
       /\ UNCHANGED <<subscribers, setChain, computes, savedMode, changes,
                      subCount, calls>>
       /\ UNCHANGED otherThanState

(* updateFn threw: batch is left at line 243, notify stays the collector *)
BatchThrow ==
    /\ inBatch
    /\ inBatch' = FALSE
    /\ notifyMode' = "lost"
    /\ collected' = <<>>
    /\ lastCall' = "batchThrew"
    /\ delivered' = <<>>
    /\ changes' = <<>>
    /\ NoUndo
    /\ UNCHANGED <<state, subscribers, history, setChain, computes, savedMode,
                   snapshots, subCount, calls>>
    /\ UNCHANGED otherThanState

----------------------------------------------------------------------------
(* MetaTagsApp: values *)

MaxUserEvents == 4

(* Strings are sequences of characters; markup is a sequence of pieces, each
   a literal of the template or a character (or entity) of a value. *)
Chars == {"a", "<", ":"}
SchemeChars == {"a"}
EmptyString == <<>>
FieldValues == {EmptyString, <<"a">>, <<"<">>, <<"a", ":">>}

(* the part of formCategories that is modelled (formCategories.js:12-20, 72-78) *)
Categories == {"basic", "seo"}
CategoryFields ==
    [basic |-> <<"title">>, seo |-> <<"canonical">>,
     opengraph |-> <<"og_type", "article_author", "article_section">>]
Fields == {"title", "canonical"}
FieldConfig ==
    [title     |-> [type |-> "text", required |-> TRUE,  maxLength |-> 60],
     canonical |-> [type |-> "url",  required |-> FALSE, maxLength |-> 0]]

(* the properties of the rendered input element: without a maxlength
   attribute input.maxLength is -1 *)
Element(field) ==
    [name |-> field,
     type |-> FieldConfig[field].type,
     required |-> FieldConfig[field].required,
     maxLength |-> IF FieldConfig[field].maxLength # 0
                   THEN FieldConfig[field].maxLength ELSE -1]

(* objects: a map from the fields it has to strings *)
EmptyObject == [f \in {} |-> EmptyString]
Ref(i) == [t |-> "ref", n |-> i, o |-> NoFields]
Has(data, f) == f \in DOMAIN data
Truthy(data, f) == Has(data, f) /\ data[f] # EmptyString
OrElse(data, f, default) == IF Truthy(data, f) THEN data[f] ELSE default

(* the documents a file can hold: not JSON, the JSON value null, a JSON
   object without data, a JSON object with a data map *)
ImportedMaps ==
    {EmptyObject,
     [f \in {"title"} |-> <<"<">>],
     [f \in Fields |-> IF f = "title" THEN <<"a">> ELSE <<"a", ":">>]}
Documents ==
    {[kind |-> "garbage", data |-> EmptyObject],
     [kind |-> "null", data |-> EmptyObject],
     [kind |-> "nodata", data |-> EmptyObject]}
    \cup {[kind |-> "data", data |-> m] : m \in ImportedMaps}

----------------------------------------------------------------------------
(* MetaGenerator, PreviewManager, ValidationEngine, FormRenderer: functions *)

(* div.textContent = text; return div.innerHTML *)
escapeHtml(text) ==
    [i \in 1..Len(text) |->
        CASE text[i] = "&" -> "&amp;"
          [] text[i] = "<" -> "&lt;"
          [] text[i] = ">" -> "&gt;"
          [] OTHER -> text[i]]

(* what the HTML parser makes of an attribute value *)
parseAttribute(pieces) ==
    [i \in 1..Len(pieces) |->
        CASE pieces[i] = "&amp;" -> "&"
          [] pieces[i] = "&lt;" -> "<"
          [] pieces[i] = "&gt;" -> ">"
          [] OTHER -> pieces[i]]

(* a tag object: an attribute the generator does not give is "" *)
NoTag ==
    [tag |-> "", charset |-> EmptyString, name |-> "", property |-> "",
     httpEquiv |-> "", rel |-> "", href |-> EmptyString, content |-> EmptyString]

Tag(tag, rel, href, content) ==
    [NoTag EXCEPT !.tag = tag, !.rel = rel, !.href = href, !.content = content]

(* a meta tag with a name, a property or an http-equiv attribute *)
NameTag(name, content) ==
    [NoTag EXCEPT !.tag = "meta", !.name = name, !.content = content]
PropertyTag(property, content) ==
    [NoTag EXCEPT !.tag = "meta", !.property = property, !.content = content]
HttpEquivTag(httpEquiv, content) ==
    [NoTag EXCEPT !.tag = "meta", !.httpEquiv = httpEquiv, !.content = content]
CharsetTag(charset) == [NoTag EXCEPT !.tag = "meta", !.charset = charset]
ScriptTag(content) == [NoTag EXCEPT !.tag = "script", !.content = content]

(* if (data[f]) tags.push({ tag: 'meta', name, content: data[f] }) *)
Named(data, f, name) ==
    IF Truthy(data, f) THEN <<NameTag(name, data[f])>> ELSE <<>>
Linked(data, f, rel) ==
    IF Truthy(data, f) THEN <<Tag("link", rel, data[f], EmptyString)>> ELSE <<>>
(* ... content: 'yes' *)
Flagged(data, f, name, content) ==
    IF Truthy(data, f) THEN <<NameTag(name, content)>> ELSE <<>>

generateBasicMeta(data) ==
    (IF Truthy(data, "title")
     THEN <<Tag("title", "", EmptyString, data["title"])>> ELSE <<>>)
    \o Named(data, "description", "description")
    \o Named(data, "keywords", "keywords")
    \o Named(data, "author", "author")
    \o Named(data, "viewport", "viewport")
    \o (IF Truthy(data, "charset") THEN <<CharsetTag(data["charset"])>> ELSE <<>>)

generateSEOMeta(data) ==
    Linked(data, "canonical", "canonical")
    \o Named(data, "robots", "robots")
    \o Named(data, "googlebot", "googlebot")
    \o (IF Truthy(data, "language")
        THEN <<HttpEquivTag("content-language", data["language"])>> ELSE <<>>)
    \o Named(data, "geo_region", "geo.region")
    \o Named(data, "geo_position", "geo.position")
    \o Named(data, "icbm", "ICBM")

(* the tags of the fields of a mapping that hold a value, in its order *)
RECURSIVE Mapped(_, _)
Mapped(mapping, data) ==
    IF mapping = <<>>
    THEN <<>>
    ELSE (IF Truthy(data, Head(mapping)[1])
          THEN <<PropertyTag(Head(mapping)[2], data[Head(mapping)[1]])>>
          ELSE <<>>) \o Mapped(Tail(mapping), data)

ogMapping ==
    <<<<"og_title", "og:title">>, <<"og_description", "og:description">>,
      <<"og_type", "og:type">>, <<"og_url", "og:url">>,
      <<"og_image", "og:image">>, <<"og_image_width", "og:image:width">>,
      <<"og_image_height", "og:image:height">>,
      <<"og_image_alt", "og:image:alt">>, <<"og_site_name", "og:site_name">>,
      <<"og_locale", "og:locale">>, <<"og_video", "og:video">>,
      <<"og_audio", "og:audio">>, <<"fb_app_id", "fb:app_id">>>>

twitterMapping ==
    <<<<"twitter_card", "twitter:card">>, <<"twitter_site", "twitter:site">>,
      <<"twitter_creator", "twitter:creator">>,
      <<"twitter_title", "twitter:title">>,
      <<"twitter_description", "twitter:description">>,
      <<"twitter_image", "twitter:image">>,
      <<"twitter_image_alt", "twitter:image:alt">>,
      <<"twitter_player", "twitter:player">>,
      <<"twitter_player_width", "twitter:player:width">>,
      <<"twitter_player_height", "twitter:player:height">>>>

articleMapping ==
    <<<<"article_published_time", "article:published_time">>,
      <<"article_modified_time", "article:modified_time">>,
      <<"article_author", "article:author">>,
      <<"article_section", "article:section">>,
      <<"article_tag", "article:tag">>>>

Is(data, f, value) == Has(data, f) /\ data[f] = value

(* generateOpenGraphMeta without the test of og_type *)
generateOpenGraphMetaUngated(data) ==
    Mapped(ogMapping, data) \o Mapped(articleMapping, data)

generateOpenGraphMeta(data) ==
    Mapped(ogMapping, data)
    \o (IF Is(data, "og_type", <<"article">>)
        THEN Mapped(articleMapping, data) ELSE <<>>)

(* the same loop over a mapping to name attributes *)
RECURSIVE NameMapped(_, _)
NameMapped(mapping, data) ==
    IF mapping = <<>>
    THEN <<>>
    ELSE Named(data, Head(mapping)[1], Head(mapping)[2])
         \o NameMapped(Tail(mapping), data)

generateTwitterMeta(data) == NameMapped(twitterMapping, data)

(* the members of the schema object: strings and nested objects *)
Str(key, value) == [key |-> key, kind |-> "string", value |-> value, members |-> <<>>]
Nested(key, members) ==
    [key |-> key, kind |-> "object", value |-> EmptyString, members |-> members]
Opt(data, f, key) == IF Truthy(data, f) THEN <<Str(key, data[f])>> ELSE <<>>

Organization == <<"Organization">>
Person == <<"Person">>
SchemaArticle == <<"Article">>

schema(data) ==
    <<Str("@context", <<"https://schema.org">>), Str("@type", data["schema_type"])>>
    \o Opt(data, "schema_name", "name")
    \o Opt(data, "schema_description", "description")
    \o Opt(data, "schema_url", "url")
    \o Opt(data, "schema_image", "image")
    \o (IF data["schema_type"] = Organization
        THEN Opt(data, "schema_logo", "logo")
             \o (IF Truthy(data, "schema_contact_type")
                 THEN <<Nested("contactPoint",
                            <<Str("@type", <<"ContactPoint">>)>>
                            \o (IF Has(data, "schema_telephone")
                                THEN <<Str("telephone", data["schema_telephone"])>>
                                ELSE <<>>)
                            \o <<Str("contactType", data["schema_contact_type"])>>)>>
                 ELSE <<>>)
        ELSE <<>>)
    \o (IF data["schema_type"] = Person
        THEN Opt(data, "schema_job_title", "jobTitle")
             \o Opt(data, "schema_works_for", "worksFor")
        ELSE <<>>)
    \o (IF data["schema_type"] = SchemaArticle
        THEN Opt(data, "schema_headline", "headline")
             \o Opt(data, "schema_date_published", "datePublished")
             \o Opt(data, "schema_date_modified", "dateModified")
             \o (IF Truthy(data, "schema_author_name")
                 THEN <<Nested("author",
                            <<Str("@type", <<"Person">>),
                              Str("name", data["schema_author_name"])>>)>>
                 ELSE <<>>)
        ELSE <<>>)

(* JSON.stringify(value, null, 2) of an object: one member per line, indented,
   nested objects indented further; none of Chars needs a JSON escape *)
Quoted(value) == <<"\"">> \o value \o <<"\"">>
QuotedKey(key) == "\"" \o key \o "\""
RECURSIVE stringifyMembers(_, _)
stringifyMembers(members, pad) ==
    IF members = <<>>
    THEN <<>>
    ELSE LET m == Head(members)
         IN pad \o <<QuotedKey(m.key), ": ">>
            \o (IF m.kind = "string"
                THEN Quoted(m.value)
                ELSE <<"{", "\n">>
                     \o stringifyMembers(m.members, pad \o <<"  ">>)
                     \o <<"\n">> \o pad \o <<"}">>)
            \o (IF Tail(members) = <<>> THEN <<>> ELSE <<",", "\n">>)
            \o stringifyMembers(Tail(members), pad)

stringify(members) ==
    <<"{", "\n">> \o stringifyMembers(members, <<"  ">>) \o <<"\n", "}">>

generateSchemaOrg(data) ==
    IF Truthy(data, "schema_type")
    THEN <<ScriptTag(stringify(schema(data)))>>
    ELSE <<>>

generateAdvancedMeta(data) ==
    Named(data, "theme_color", "theme-color")
    \o Named(data, "msapplication_tilecolor", "msapplication-TileColor")
    \o Named(data, "msapplication_config", "msapplication-config")
    \o Named(data, "rating", "rating")
    \o Named(data, "referrer", "referrer")

generateMobileMeta(data) ==
    Flagged(data, "mobile_web_app_capable", "mobile-web-app-capable", <<"yes">>)
    \o Flagged(data, "apple_mobile_web_app_capable",
               "apple-mobile-web-app-capable", <<"yes">>)
    \o Named(data, "apple_mobile_web_app_status_bar_style",
             "apple-mobile-web-app-status-bar-style")
    \o Named(data, "apple_mobile_web_app_title", "apple-mobile-web-app-title")
    \o Linked(data, "apple_touch_icon", "apple-touch-icon")
    \o Linked(data, "manifest", "manifest")

generateSocialMeta(data) ==
    Flagged(data, "pinterest_rich_pin", "pinterest-rich-pin", <<"true">>)
    \o (IF Truthy(data, "linkedin_owner")
        THEN <<PropertyTag("linkedin:owner", data["linkedin_owner"])>>
        ELSE <<>>)

(* the tags of all generators, in the order of this.generators *)
allTags(data) ==
    generateBasicMeta(data) \o generateSEOMeta(data)
    \o generateOpenGraphMeta(data) \o generateTwitterMeta(data)
    \o generateSchemaOrg(data) \o generateAdvancedMeta(data)
    \o generateMobileMeta(data) \o generateSocialMeta(data)

(* an attribute the tag has, as pieces: fixed text and the value *)
Attr(label, value) ==
    IF value = "" THEN <<>> ELSE <<<<label, value, "\"">>>>
Escaped(label, value) ==
    IF value = EmptyString THEN <<>>
    ELSE <<<<label>> \o escapeHtml(value) \o <<"\"">>>>
Raw(label, value) ==
    IF value = EmptyString THEN <<>> ELSE <<<<label>> \o value \o <<"\"">>>>

(* attrs.join(' ') *)
RECURSIVE Join(_)
Join(attrs) ==
    IF attrs = <<>> THEN <<>>
    ELSE IF Tail(attrs) = <<>> THEN Head(attrs)
    ELSE Head(attrs) \o <<" ">> \o Join(Tail(attrs))

(* the lines of one tag; the content of title and of meta is escaped, the
   charset of meta, the href of link and the content of script are not; an
   attribute that is empty is left out *)
formatTag(t) ==
    CASE t.tag = "title" ->
            <<<<"    <title>">> \o escapeHtml(t.content) \o <<"</title>">>>>
      [] t.tag = "meta" ->
            <<<<"    <meta ">>
                 \o Join(Raw("charset=\"", t.charset) \o Attr("name=\"", t.name)
                         \o Attr("property=\"", t.property)
                         \o Attr("http-equiv=\"", t.httpEquiv)
                         \o Escaped("content=\"", t.content))
                 \o <<">">>>>
      [] t.tag = "link" ->
            <<<<"    <link ">>
                 \o Join(Attr("rel=\"", t.rel) \o Raw("href=\"", t.href))
                 \o <<">">>>>
      [] t.tag = "script" ->
            <<<<"    <script type=\"", "application/ld+json", "\">">>,
              t.content,
              <<"    </script>">>>>

RECURSIVE formatTags(_)
formatTags(tags) ==
    IF tags = <<>> THEN <<>>
    ELSE formatTag(Head(tags)) \o formatTags(Tail(tags))

generate(data) == formatTags(allTags(data))

Points(data, f, points) == IF Truthy(data, f) THEN points ELSE 0
LengthOf(data, f) == IF Has(data, f) THEN Len(data[f]) ELSE 0
Min(a, b) == IF a <= b THEN a ELSE b

(* a basic category that gives the title more than the category holds *)
basicScoreGenerous(data) ==
    Points(data, "title", 40)
    + (IF Truthy(data, "description") /\ LengthOf(data, "description") >= 120
       THEN 10 ELSE 0)
    + Points(data, "keywords", 10)

(* the categories of MetaGenerator.calculateSEOScore *)
basicScore(data) ==
    Points(data, "title", 10)
    + (IF Truthy(data, "description") /\ LengthOf(data, "description") >= 120
       THEN 10 ELSE 0)
    + Points(data, "keywords", 10)

openGraphScore(data) ==
    Points(data, "og_title", 5) + Points(data, "og_description", 5)
    + Points(data, "og_image", 10) + Points(data, "og_url", 5)

twitterScore(data) ==
    Points(data, "twitter_card", 5) + Points(data, "twitter_title", 5)
    + Points(data, "twitter_image", 5)

seoScore(data) ==
    Points(data, "canonical", 10) + Points(data, "robots", 5)
    + Points(data, "language", 5)

schemaScore(data) == Points(data, "schema_type", 10)

calculateSEOScore(data) ==
    Min(basicScore(data) + openGraphScore(data) + twitterScore(data)
            + seoScore(data) + schemaScore(data), 100)

(* ValidationEngine.calculateSEOScore: its basic category looks at the
   lengths of title and description; the other categories are the same *)
validatorBasicScore(data) ==
    (IF Truthy(data, "title") /\ LengthOf(data, "title") >= 30
            /\ LengthOf(data, "title") <= 60
     THEN 15 ELSE Points(data, "title", 5))
    + (IF Truthy(data, "description") /\ LengthOf(data, "description") >= 120
            /\ LengthOf(data, "description") <= 160
       THEN 15 ELSE Points(data, "description", 5))

validatorSEOScore(data) ==
    Min(validatorBasicScore(data) + openGraphScore(data) + twitterScore(data)
            + seoScore(data) + schemaScore(data), 100)

(* charCount is the length of generate(data), the text of codeOutput *)
getStats(data) ==
    [totalTags |-> Len(allTags(data)), seoScore |-> calculateSEOScore(data)]

(* new URL(value) succeeds: a scheme, then a colon *)
newURL(value) ==
    \E k \in 2..Len(value) :
        /\ value[k] = ":"
        /\ \A i \in 1..(k - 1) : value[i] \in SchemeChars

(* validator.js isURL(value, { protocols: ['http', 'https'],
   require_protocol: true }): a string without '://' has no protocol, and no
   string over Chars holds one *)
isURL(value) == FALSE

(* ValidationEngine.validateURL: validator.js when the page has loaded it,
   else new URL *)
validateURL(value) ==
    \/ value = EmptyString
    \/ IF validatorLoaded THEN isURL(value) ELSE newURL(value)

isEmpty(value) == value = EmptyString

(* ValidationEngine.validateField(field) for a text or url input *)
validateField(field, value) ==
    IF field.required /\ isEmpty(value)
    THEN [valid |-> FALSE, error |-> "required"]
    ELSE IF isEmpty(value)
    THEN [valid |-> TRUE, error |-> "null"]
    ELSE LET errors ==
                 (IF field.type = "url" /\ ~validateURL(value)
                  THEN <<"url">> ELSE <<>>)
                 \o (IF field.maxLength # 0 /\ Len(value) > field.maxLength
                     THEN <<"maxLength">> ELSE <<>>)
         IN [valid |-> errors = <<>>,
             error |-> IF errors = <<>> THEN "null" ELSE errors[1]]

(* an assignment that a failed validation blocks *)
AssignFieldIfValid(data, field, value) ==
    IF validateField(Element(field), value).valid
    THEN [f \in DOMAIN data \cup {field} |-> IF f = field THEN value ELSE data[f]]
    ELSE data

(* this.formData[field] = value *)
AssignField(data, field, value) ==
    [f \in DOMAIN data \cup {field} |-> IF f = field THEN value ELSE data[f]]

truncate(text, maxLength) ==
    IF Len(text) <= maxLength THEN text
    ELSE SubSeq(text, 1, maxLength - 3) \o <<"...">>

(* hostname of a URL with a scheme that is not special: empty *)
hostname(url) == EmptyString

(* the variable parts of generateGooglePreview's template *)
generateGooglePreview(data) ==
    [domain |-> IF ~Truthy(data, "canonical") \/ ~newURL(data["canonical"])
                THEN <<"example.com">>
                ELSE escapeHtml(hostname(data["canonical"])),
     title |-> escapeHtml(truncate(OrElse(data, "title", <<"Untitled Page">>), 60)),
     description |->
         escapeHtml(truncate(OrElse(data, "description",
                                    <<"No description available">>), 160))]

(* a || b || default *)
Either(data, f, g, default) == OrElse(data, f, OrElse(data, g, default))

(* the variable parts of the other templates; a block the template leaves
   out when its value is empty shows as the empty string *)
generateFacebookPreview(data) ==
    [kind |-> "facebook",
     image |-> escapeHtml(OrElse(data, "og_image", EmptyString)),
     siteName |-> escapeHtml(OrElse(data, "og_site_name", EmptyString)),
     title |-> escapeHtml(truncate(Either(data, "og_title", "title",
                                          <<"Untitled">>), 100)),
     description |-> escapeHtml(truncate(Either(data, "og_description",
                                                "description", EmptyString), 200))]

generateTwitterPreview(data) ==
    [kind |-> "twitter",
     large |-> OrElse(data, "twitter_card", <<"summary_large_image">>)
                   = <<"summary_large_image">>,
     image |-> escapeHtml(Either(data, "twitter_image", "og_image", EmptyString)),
     title |-> escapeHtml(truncate(Either(data, "twitter_title", "title",
                                          <<"Untitled">>), 70)),
     description |-> escapeHtml(truncate(Either(data, "twitter_description",
                                                "description", EmptyString), 200)),
     site |-> escapeHtml(OrElse(data, "twitter_site", EmptyString))]

generateLinkedInPreview(data) ==
    LET url == Either(data, "og_url", "canonical", EmptyString)
    IN [kind |-> "linkedin",
        image |-> escapeHtml(OrElse(data, "og_image", EmptyString)),
        title |-> escapeHtml(truncate(Either(data, "og_title", "title",
                                             <<"Untitled">>), 100)),
        description |-> escapeHtml(truncate(Either(data, "og_description",
                                                   "description", EmptyString), 150)),
        domain |-> IF newURL(url) THEN escapeHtml(hostname(url))
                   ELSE <<"example.com">>]

(* PreviewManager.generate(data, type) for the options of #previewType *)
PreviewTypes == {"google", "facebook", "twitter", "linkedin"}
generatePreview(data, type) ==
    CASE type = "google" -> generateGooglePreview(data)
      [] type = "facebook" -> generateFacebookPreview(data)
      [] type = "twitter" -> generateTwitterPreview(data)
      [] type = "linkedin" -> generateLinkedInPreview(data)

(* JSON.stringify({ data, timestamp, version }) and back *)
Serialized(data) == [data |-> data, version |-> "2.0.0"]
NothingSaved == [data |-> EmptyObject, version |-> "none"]

----------------------------------------------------------------------------
(* Functions of a field-value map: validateForm *)

Article == <<"article">>
Website == <<"website">>
NoCondition == [field |-> "none", value |-> EmptyString]

(* formCategories.opengraph.fields: og_type and two of the article fields
   (formCategories.js:158-176, 262-277) *)
OpenGraphFields ==
    <<[name |-> "og_type", type |-> "select", required |-> FALSE,
       maxLength |-> 0, condition |-> NoCondition],
      [name |-> "article_author", type |-> "url", required |-> FALSE,
       maxLength |-> 0,
       condition |-> [field |-> "og_type", value |-> Article]],
      [name |-> "article_section", type |-> "text", required |-> FALSE,
       maxLength |-> 0,
       condition |-> [field |-> "og_type", value |-> Article]]>>

(* formData[field.condition.field] === field.condition.value
   (FormRenderer.js:47-53) *)
conditionMet(field, data) ==
    field.condition # NoCondition =>
        (Has(data, field.condition.field)
            /\ data[field.condition.field] = field.condition.value)

(* the options of the og_type select (formCategories.js:161-173) *)
ogTypeOptions ==
    {Website, Article, <<"blog">>, <<"book">>, <<"profile">>,
     <<"video.movie">>, <<"video.episode">>, <<"video.tv_show">>,
     <<"video.other">>, <<"music.song">>, <<"music.album">>}

(* The condition formCategories gives the field of that name *)
ConditionOf(name) ==
    IF \E i \in 1..Len(OpenGraphFields) : OpenGraphFields[i].name = name
    THEN OpenGraphFields[CHOOSE i \in 1..Len(OpenGraphFields) :
                            OpenGraphFields[i].name = name].condition
    ELSE NoCondition

(* FormRenderer.renderField: nothing for a field whose condition is not met *)
shown(category, data) ==
    LET fs == CategoryFields[category]
    IN {f \in {fs[i] : i \in 1..Len(fs)} :
           conditionMet([condition |-> ConditionOf(f)], data)}

(* The value the rendered control has: a select shows the option equal to
   formData[name] || field.value, or its first option when there is none;
   an input its escaped value attribute *)
controlValue(f, data) ==
    IF f = "og_type"
    THEN (IF OrElse(data, f, Website) \in ogTypeOptions
          THEN OrElse(data, f, Website) ELSE Website)
    ELSE parseAttribute(escapeHtml(OrElse(data, f, EmptyString)))

(* FormRenderer.render: the inputs of the category and their values *)
rendered(category, data) ==
    [f \in shown(category, data) |-> controlValue(f, data)]

(* formData[field.name]: undefined and '' are both empty *)
ValueOf(data, f) == IF Has(data, f) THEN data[f] ELSE EmptyString

(* ValidationEngine.validateForm(formData, fields) *)
validateForm(data, fields) ==
    LET bad == {i \in 1..Len(fields) :
                   ~validateField(fields[i], ValueOf(data, fields[i].name)).valid}
    IN [valid |-> bad = {},
        errors |-> [n \in {fields[i].name : i \in bad} |->
                       LET i == CHOOSE j \in bad : fields[j].name = n
                       IN validateField(fields[i], ValueOf(data, n)).error]]

NoResult == [call |-> "none"]

(* ToastNotification (ToastNotification.js). The clock counts steps of
   300 ms, the delay remove() waits before it detaches a toast. The 10 ms
   timeout of show() only adds the CSS class 'show' and is left out. *)
maxToasts == 5
RemoveDelay == 1
(* this.defaultDuration = 4000 ms, in steps of 300 ms rounded up *)
defaultDuration == 14
MaxShown == 6
MaxTimers == 3
(* how far the clock is followed while toasts are shown *)
MaxToastClock == 3
(* confirm toasts on the page at a time *)
MaxConfirms == 1
Durations == {0, 1}

(* the fields after the constructor, before init() looks for the container *)
InitToasts ==
    /\ toasts = <<>>
    /\ attached = {}
    /\ toastTimers = <<>>
    /\ toastCount = 0
    /\ confirms = {}

(* on a page that has #toastContainer *)
InitToast ==
    /\ InitToasts
    /\ container = TRUE

(* remove(toast): nothing for a toast without parent, else a timeout that
   will detach it and take it out of this.toasts *)
remove(timers, el, now) ==
    IF el \in attached
    THEN Append(timers, [toast |-> el, due |-> now + RemoveDelay, kind |-> "detach"])
    ELSE timers

removeOldest(timers, now) ==
    IF Len(toasts) > 0 THEN remove(timers, toasts[1], now) ELSE timers

RECURSIVE removeEach(_, _, _)
removeEach(timers, els, now) ==
    IF els = <<>> THEN timers
    ELSE removeEach(remove(timers, Head(els), now), Tail(els), now)

Without(seq, i) == SubSeq(seq, 1, i - 1) \o SubSeq(seq, i + 1, Len(seq))

(* The timeout the event loop runs next: the earliest due, the one created
   first among equals *)
NextTimer ==
    CHOOSE i \in 1..Len(toastTimers) :
        /\ toastTimers[i].due <= clock
        /\ \A j \in 1..Len(toastTimers) :
              \/ toastTimers[j].due > toastTimers[i].due
              \/ toastTimers[j].due = toastTimers[i].due /\ j >= i

(* show(message, type, duration): what it does to the toasts. Without the
   container it warns and returns null. *)
show(duration) ==
    LET el == toastCount + 1
        limited == IF Len(toasts) >= maxToasts
                   THEN removeOldest(toastTimers, clock) ELSE toastTimers
    IN IF ~container
       THEN UNCHANGED toastVars
       ELSE /\ toastCount' = el
            /\ attached' = attached \cup {el}
            /\ toasts' = Append(toasts, el)
            /\ toastTimers' = IF duration > 0
                              THEN Append(limited, [toast |-> el, due |-> clock + duration,
                                                    kind |-> "auto"])
                              ELSE limited
            /\ UNCHANGED <<container, confirms>>

(* the timeouts a call of show(message, type, duration) sets *)
Sets(duration) ==
    (IF duration > 0 THEN 1 ELSE 0)
        + (IF Len(toasts) >= maxToasts /\ toasts[1] \in attached THEN 1 ELSE 0)

Show(duration) ==
    /\ toastCount < MaxShown
    /\ Len(toastTimers) + Sets(duration) <= MaxTimers
    /\ show(duration)
    /\ UNCHANGED <<busVars, smVars, appVars, timeVars, formVars, envVars>>

(* loading(message): show(message, 'info', 0), then the spinner is put on
   the toast that show returned; without the container show returned null and
   the call throws a TypeError *)
Loading ==
    /\ toastCount < MaxShown
    /\ Len(toastTimers) + Sets(0) <= MaxTimers
    /\ show(0)
    /\ UNCHANGED <<busVars, smVars, appVars, timeVars, formVars, envVars>>

(* confirm(message, onConfirm, onCancel): a toast with two buttons is
   appended to the container and pushed on this.toasts; removeOldest is not
   called and no timeout removes it. Without the container appendChild throws
   a TypeError before the push. *)
Confirm ==
    /\ toastCount < MaxShown
    /\ Cardinality(confirms) < MaxConfirms
    /\ IF ~container
       THEN UNCHANGED toastVars
       ELSE /\ toastCount' = toastCount + 1
            /\ attached' = attached \cup {toastCount + 1}
            /\ toasts' = Append(toasts, toastCount + 1)
            /\ confirms' = confirms \cup {[toast |-> toastCount + 1, clicked |-> "none"]}
            /\ UNCHANGED <<toastTimers, container>>
    /\ UNCHANGED <<busVars, smVars, appVars, timeVars, formVars, envVars>>

(* a click on the Confirm or the Cancel button of a confirm toast: the
   callback given to confirm, then remove(toast) *)
Answer(el, button) ==
    /\ Len(toastTimers) < MaxTimers
    /\ \E c \in confirms :
          /\ c.toast = el
          /\ confirms' = (confirms \ {c}) \cup {[toast |-> el, clicked |-> button]}
    /\ toastTimers' = remove(toastTimers, el, clock)
    /\ UNCHANGED <<toasts, attached, toastCount, container>>
    /\ UNCHANGED <<busVars, smVars, appVars, timeVars, formVars, envVars>>

Close(el) ==
    /\ el \in attached
    /\ Len(toastTimers) < MaxTimers
    /\ toastTimers' = remove(toastTimers, el, clock)
    /\ UNCHANGED <<toasts, attached, toastCount, container, confirms>>
    /\ UNCHANGED <<busVars, smVars, appVars, timeVars, formVars, envVars>>

RemoveAll ==
    /\ toasts # <<>>
    /\ Len(toastTimers) + Len(toasts) <= MaxTimers
    /\ toastTimers' = removeEach(toastTimers, toasts, clock)
    /\ UNCHANGED <<toasts, attached, toastCount, container, confirms>>
    /\ UNCHANGED <<busVars, smVars, appVars, timeVars, formVars, envVars>>

ToastTimerFires ==
    /\ \E i \in 1..Len(toastTimers) : toastTimers[i].due <= clock
    /\ LET t == toastTimers[NextTimer]
           rest == Without(toastTimers, NextTimer)
       IN IF t.kind = "auto"
          THEN /\ toastTimers' = remove(rest, t.toast, clock)
               /\ UNCHANGED <<toasts, attached, confirms>>
          ELSE /\ toastTimers' = rest
               /\ attached' = attached \ {t.toast}
               /\ toasts' = SelectSeq(toasts, LAMBDA el : el # t.toast)
               /\ confirms' = {c \in confirms : c.toast # t.toast}
    /\ UNCHANGED <<toastCount, container>>
    /\ UNCHANGED <<busVars, smVars, appVars, timeVars, formVars, envVars>>

InitForm ==
    /\ form = EmptyObject
    /\ result = NoResult

(* formData[field] = value *)
FillField(field, value) ==
    /\ form' = AssignField(form, field, value)
    /\ result' = NoResult
    /\ UNCHANGED <<busVars, smVars, appVars, timeVars, toastVars, envVars>>

(* MetaGenerator.generate(formData): the tags and the markup *)
Generate ==
    /\ result' = [call |-> "generate",
                  tags |-> allTags(form),
                  value |-> generate(form)]
    /\ UNCHANGED form
    /\ UNCHANGED <<busVars, smVars, appVars, timeVars, toastVars, envVars>>

(* MetaGenerator.calculateSEOScore(formData) *)
Score ==
    /\ result' = [call |-> "calculateSEOScore", value |-> calculateSEOScore(form)]
    /\ UNCHANGED form
    /\ UNCHANGED <<busVars, smVars, appVars, timeVars, toastVars, envVars>>

(* ValidationEngine.calculateSEOScore(formData) *)
ScoreValidator ==
    /\ result' = [call |-> "validatorSEOScore", value |-> validatorSEOScore(form)]
    /\ UNCHANGED form
    /\ UNCHANGED <<busVars, smVars, appVars, timeVars, toastVars, envVars>>

ValidateForm ==
    /\ result' = [call |-> "validateForm",
                  value |-> validateForm(form, OpenGraphFields)]
    /\ UNCHANGED form
    /\ UNCHANGED <<busVars, smVars, appVars, timeVars, toastVars, envVars>>

----------------------------------------------------------------------------
(* The clock, the timers, EventBus.debounce and StorageManager *)

MaxClock == 4
MaxTriggers == 3
MaxDebounced == 2
MaxStorageCalls == 4

(* the delay given to debounce, in clock ticks *)
Delay == 2
(* the limit given to throttle, in clock ticks *)
Limit == 2

Payloads == {"x", "y"}
StorageKeys == {"k", "m"}
StoredData == {"v", "w"}
(* the ttl argument of save; 0 stands for the default null *)
TTLs == {0, 1, 2}
Null == "null"

NoTrigger == [at |-> -1, data |-> "none"]
(* no entry under a key of this.storage (Map.get gives undefined) *)
NoEntry == [data |-> Null, timestamp |-> -1, version |-> "none"]
NoSave == [at |-> -1, ttl |-> 0, data |-> Null]
(* the timeout of a debounce wrapper, which runs callback(data), and the one
   of a throttle wrapper, which sets inThrottle to false *)
Timeout(id, due, sub, data) ==
    [id |-> id, due |-> due, sub |-> sub, data |-> data, runs |-> "callback"]
Release(id, due, sub) ==
    [id |-> id, due |-> due, sub |-> sub, data |-> "none", runs |-> "release"]
PendingOf(sub) == {t \in timeouts : t.sub = sub}

(* A clearTimeout that leaves the timeout pending. *)
clearTimeoutNothing(ts, id) == ts

(* clearTimeout(id): an id that is undefined or has fired clears nothing *)
clearTimeout(ts, id) == {t \in ts : t.id # id}

(* The listeners that debounce and throttle subscribe, called in turn with
   the data. A debounce wrapper clears the timeout of its closure and sets a
   new one. A throttle wrapper that is not in throttle calls the callback at
   once, sets inThrottle and a timeout that resets it; one that is in
   throttle does nothing. *)
RECURSIVE RunWrappers(_, _, _, _)
RunWrappers(arr, data, now, w) ==
    IF arr = <<>>
    THEN w
    ELSE LET sub == Head(arr).id
             id == w.next + 1
         IN RunWrappers(Tail(arr), data, now,
                IF Head(arr).callback = "d"
                THEN [w EXCEPT
                        !.timeouts = clearTimeout(w.timeouts, w.timeoutId[sub])
                                        \cup {Timeout(id, now + Delay, sub, data)},
                        !.timeoutId = [w.timeoutId EXCEPT ![sub] = id],
                        !.next = id]
                ELSE IF ~w.inThrottle[sub]
                THEN [w EXCEPT
                        !.ran = Append(w.ran,
                                    [sub |-> sub, at |-> now, data |-> data,
                                     after |-> [at |-> now, data |-> data],
                                     by |-> "throttle"]),
                        !.inThrottle = [w.inThrottle EXCEPT ![sub] = TRUE],
                        !.timeouts = w.timeouts \cup {Release(id, now + Limit, sub)},
                        !.next = id]
                ELSE w)

(* isExpired with the comparison made one tick early. *)
isExpiredEarly(times, fullKey, now) ==
    times[fullKey] # 0 /\ now >= times[fullKey]

(* StorageManager.isExpired *)
isExpired(times, fullKey, now) ==
    times[fullKey] # 0 /\ now > times[fullKey]

(* JSON.stringify({data, timestamp, version}) and JSON.parse of it *)
Entry(data, now) == [data |-> data, timestamp |-> now, version |-> "2.0.0"]

Result(call, key, value, now) ==
    [call |-> call, key |-> key, value |-> value, at |-> now]

(* the data of an import: key -> the value to save, Null where the data has
   no such key; NoData is an import without a data property *)
NoData == [k \in StorageKeys |-> "undefined"]
Imports == {NoData, [k \in StorageKeys |-> IF k = "m" THEN "w" ELSE Null]}

(* _.merge({}, current, updates) of two strings of one character: merge
   copies the indexed characters of each source in turn, which leaves the
   object {0: updates} *)
merge(current, updates) == [v |-> "{0:v}", w |-> "{0:w}"][updates]

storageVars == <<stored, expirationTimes, returned, lastSave, storageCalls>>
debounceVars == <<timeouts, nextTimeout, timeoutId, inThrottle, ran, lastTrigger,
                  bursts>>

InitTime ==
    /\ clock = 0
    /\ timeouts = {}
    /\ nextTimeout = 0
    /\ timeoutId = [i \in 1..(MaxSubs + 1) |-> 0]
    /\ inThrottle = [i \in 1..(MaxSubs + 1) |-> FALSE]
    /\ stored = [k \in StorageKeys |-> NoEntry]
    /\ expirationTimes = [k \in StorageKeys |-> 0]
    /\ ran = <<>>
    /\ lastTrigger = [i \in 1..(MaxSubs + 1) |-> NoTrigger]
    /\ bursts = [i \in 1..(MaxSubs + 1) |-> 0]
    /\ returned = Result("none", "none", Null, 0)
    /\ lastSave = [k \in StorageKeys |-> NoSave]
    /\ storageCalls = 0

(* time passes. setTimeout runs its callback no earlier than it is due: a
   timeout that is due may still wait for the event loop while the clock
   moves on and other calls are made *)
Tick ==
    /\ clock < MaxClock
    /\ clock' = clock + 1
    /\ UNCHANGED <<storageVars, debounceVars>>
    /\ UNCHANGED <<busVars, smVars, appVars, formVars, toastVars, envVars>>

(* debounce(eventName, callback, delay): on(eventName, wrapper) *)
Debounce ==
    /\ nextId < MaxDebounced
    /\ On("e", "d", 0)

(* throttle(eventName, callback, limit): on(eventName, wrapper) *)
Throttle ==
    /\ nextId < MaxDebounced
    /\ On("e", "h", 0)

(* emit('e', data) on a bus whose listeners are debounce and throttle
   wrappers *)
Trigger(data) ==
    /\ pc = "idle"
    /\ emits < MaxTriggers
    /\ emits' = emits + 1
    /\ eventHistory' = AddToHistory(eventHistory, "e")
    /\ LET arr == events["e"]
           debounced == {arr[i].id : i \in {j \in 1..Len(arr) : arr[j].callback = "d"}}
           w == RunWrappers(arr, data, clock,
                    [timeouts |-> timeouts, timeoutId |-> timeoutId,
                     next |-> nextTimeout, inThrottle |-> inThrottle,
                     ran |-> ran])
       IN /\ timeouts' = w.timeouts
          /\ timeoutId' = w.timeoutId
          /\ nextTimeout' = w.next
          /\ inThrottle' = w.inThrottle
          /\ ran' = w.ran
          /\ lastTrigger' = [i \in DOMAIN lastTrigger |->
                                IF i \in Ids(arr)
                                THEN [at |-> clock, data |-> data]
                                ELSE lastTrigger[i]]
          /\ bursts' = [i \in DOMAIN bursts |->
                           IF i \in debounced /\ PendingOf(i) = {}
                           THEN bursts[i] + 1
                           ELSE bursts[i]]
    /\ UNCHANGED <<clock, storageVars>>
    /\ UNCHANGED <<events, onceEvents, middleware, dispatchVars, promises,
                   asyncState, waitVars, nextId, handles>>
    /\ UNCHANGED <<smVars, appVars, formVars, toastVars, envVars>>

(* a timeout that is due runs: callback(data) for a debounce wrapper,
   inThrottle = false for a throttle wrapper *)
TimeoutFires ==
    /\ pc = "idle"
    /\ \E t \in timeouts :
          /\ t.due <= clock
          /\ \A u \in timeouts : u.due >= t.due
          /\ timeouts' = timeouts \ {t}
          /\ IF t.runs = "callback"
             THEN /\ ran' = Append(ran, [sub |-> t.sub, at |-> clock, data |-> t.data,
                                         after |-> lastTrigger[t.sub],
                                         by |-> "debounce"])
                  /\ UNCHANGED inThrottle
             ELSE /\ inThrottle' = [inThrottle EXCEPT ![t.sub] = FALSE]
                  /\ UNCHANGED ran
    /\ UNCHANGED <<clock, nextTimeout, timeoutId, lastTrigger, bursts,
                   storageVars>>
    /\ UNCHANGED <<busVars, smVars, appVars, formVars, toastVars, envVars>>

(* StorageManager.save(key, data, ttl) *)
Save(key, data, ttl) ==
    /\ storageCalls < MaxStorageCalls
    /\ storageCalls' = storageCalls + 1
    /\ stored' = [stored EXCEPT ![key] = Entry(data, clock)]
    /\ expirationTimes' = IF ttl # 0
                          THEN [expirationTimes EXCEPT ![key] = clock + ttl]
                          ELSE expirationTimes
    /\ returned' = Result("save", key, TRUE, clock)
    /\ lastSave' = [lastSave EXCEPT ![key] =
                       [at |-> clock, ttl |-> ttl, data |-> data]]
    /\ UNCHANGED <<clock, debounceVars>>
    /\ UNCHANGED <<busVars, smVars, appVars, formVars, toastVars, envVars>>

(* StorageManager.load(key) *)
Load(key) ==
    /\ storageCalls < MaxStorageCalls
    /\ storageCalls' = storageCalls + 1
    /\ IF isExpired(expirationTimes, key, clock)
       THEN /\ stored' = [stored EXCEPT ![key] = NoEntry]
            /\ expirationTimes' = [expirationTimes EXCEPT ![key] = 0]
            /\ returned' = Result("load", key, Null, clock)
       ELSE /\ UNCHANGED <<stored, expirationTimes>>
            /\ returned' = Result("load", key,
                              IF stored[key] = NoEntry THEN Null
                              ELSE stored[key].data, clock)
    /\ UNCHANGED <<clock, lastSave, debounceVars>>
    /\ UNCHANGED <<busVars, smVars, appVars, formVars, toastVars, envVars>>

(* StorageManager.has(key) *)
HasKey(key) ==
    /\ storageCalls < MaxStorageCalls
    /\ storageCalls' = storageCalls + 1
    /\ IF isExpired(expirationTimes, key, clock)
       THEN /\ stored' = [stored EXCEPT ![key] = NoEntry]
            /\ expirationTimes' = [expirationTimes EXCEPT ![key] = 0]
            /\ returned' = Result("has", key, FALSE, clock)
       ELSE /\ UNCHANGED <<stored, expirationTimes>>
            /\ returned' = Result("has", key, stored[key] # NoEntry, clock)
    /\ UNCHANGED <<clock, lastSave, debounceVars>>
    /\ UNCHANGED <<busVars, smVars, appVars, formVars, toastVars, envVars>>

(* StorageManager.remove(key) *)
Remove(key) ==
    /\ storageCalls < MaxStorageCalls
    /\ storageCalls' = storageCalls + 1
    /\ stored' = [stored EXCEPT ![key] = NoEntry]
    /\ expirationTimes' = [expirationTimes EXCEPT ![key] = 0]
    /\ returned' = Result("remove", key, Null, clock)
    /\ lastSave' = [lastSave EXCEPT ![key] = NoSave]
    /\ UNCHANGED <<clock, debounceVars>>
    /\ UNCHANGED <<busVars, smVars, appVars, formVars, toastVars, envVars>>

(* StorageManager.clear() *)
Clear_Storage ==
    /\ storageCalls < MaxStorageCalls
    /\ storageCalls' = storageCalls + 1
    /\ stored' = [k \in StorageKeys |-> NoEntry]
    /\ expirationTimes' = [k \in StorageKeys |-> 0]
    /\ returned' = Result("clear", "none", Null, clock)
    /\ lastSave' = [k \in StorageKeys |-> NoSave]
    /\ UNCHANGED <<clock, debounceVars>>
    /\ UNCHANGED <<busVars, smVars, appVars, formVars, toastVars, envVars>>

(* StorageManager.cleanExpired() *)
CleanExpired ==
    /\ storageCalls < MaxStorageCalls
    /\ storageCalls' = storageCalls + 1
    /\ LET gone == {k \in StorageKeys :
                       expirationTimes[k] # 0 /\ clock > expirationTimes[k]}
       IN /\ stored' = [k \in StorageKeys |->
                           IF k \in gone THEN NoEntry ELSE stored[k]]
          /\ expirationTimes' = [k \in StorageKeys |->
                                    IF k \in gone THEN 0 ELSE expirationTimes[k]]
          /\ returned' = Result("cleanExpired", "none", Cardinality(gone), clock)
    /\ UNCHANGED <<clock, lastSave, debounceVars>>
    /\ UNCHANGED <<busVars, smVars, appVars, formVars, toastVars, envVars>>

(* StorageManager.importAll(importData): throws when there is no data;
   otherwise clear(), then save(key, value) of every entry of the data *)
ImportAll(data) ==
    /\ storageCalls < MaxStorageCalls
    /\ storageCalls' = storageCalls + 1
    /\ IF data = NoData
       THEN /\ returned' = Result("importAll", "none", "threw", clock)
            /\ UNCHANGED <<stored, expirationTimes, lastSave>>
       ELSE /\ stored' = [k \in StorageKeys |->
                             IF data[k] = Null THEN NoEntry
                             ELSE Entry(data[k], clock)]
            /\ expirationTimes' = [k \in StorageKeys |-> 0]
            /\ lastSave' = [k \in StorageKeys |->
                               IF data[k] = Null THEN NoSave
                               ELSE [at |-> clock, ttl |-> 0, data |-> data[k]]]
            /\ returned' = Result("importAll", "none", TRUE, clock)
    /\ UNCHANGED <<clock, debounceVars>>
    /\ UNCHANGED <<busVars, smVars, appVars, formVars, toastVars, envVars>>

(* StorageManager.exportAll(): load(key) of every key of the storage, which
   removes the entries that have expired and gives null for them *)
ExportAll ==
    /\ storageCalls < MaxStorageCalls
    /\ storageCalls' = storageCalls + 1
    /\ LET keys == {k \in StorageKeys : stored[k] # NoEntry}
           gone == {k \in keys : isExpired(expirationTimes, k, clock)}
       IN /\ stored' = [k \in StorageKeys |->
                           IF k \in gone THEN NoEntry ELSE stored[k]]
          /\ expirationTimes' = [k \in StorageKeys |->
                                    IF k \in gone THEN 0 ELSE expirationTimes[k]]
          /\ returned' = Result("exportAll", "none",
                               [k \in keys |-> IF k \in gone THEN Null
                                               ELSE stored[k].data], clock)
    /\ UNCHANGED <<clock, lastSave, debounceVars>>
    /\ UNCHANGED <<busVars, smVars, appVars, formVars, toastVars, envVars>>

(* StorageManager.update(key, updates): load(key), which removes an expired
   entry; then save(key, updates) when nothing was loaded, and
   save(key, _.merge({}, current, updates)) otherwise *)
Update_Storage(key, updates) ==
    /\ storageCalls < MaxStorageCalls
    /\ storageCalls' = storageCalls + 1
    /\ LET expired == isExpired(expirationTimes, key, clock)
           current == IF expired \/ stored[key] = NoEntry THEN Null
                      ELSE stored[key].data
           saved == IF current = Null THEN updates ELSE merge(current, updates)
       IN /\ stored' = [stored EXCEPT ![key] = Entry(saved, clock)]
          /\ expirationTimes' = IF expired
                                THEN [expirationTimes EXCEPT ![key] = 0]
                                ELSE expirationTimes
          /\ lastSave' = [lastSave EXCEPT ![key] =
                             [at |-> clock, ttl |-> 0, data |-> saved]]
    /\ returned' = Result("update", key, TRUE, clock)
    /\ UNCHANGED <<clock, debounceVars>>
    /\ UNCHANGED <<busVars, smVars, appVars, formVars, toastVars, envVars>>

(* StorageManager.getOrDefault(key, defaultValue): load(key), which removes
   an expired entry; when it gave null, save(key, defaultValue) *)
GetOrDefault(key, defaultValue) ==
    /\ storageCalls < MaxStorageCalls
    /\ storageCalls' = storageCalls + 1
    /\ LET expired == isExpired(expirationTimes, key, clock)
           value == IF expired \/ stored[key] = NoEntry THEN Null
                    ELSE stored[key].data
       IN IF value = Null
          THEN /\ stored' = [stored EXCEPT ![key] = Entry(defaultValue, clock)]
               /\ expirationTimes' = IF expired
                                     THEN [expirationTimes EXCEPT ![key] = 0]
                                     ELSE expirationTimes
               /\ lastSave' = [lastSave EXCEPT ![key] =
                                  [at |-> clock, ttl |-> 0, data |-> defaultValue]]
               /\ returned' = Result("getOrDefault", key, defaultValue, clock)
          ELSE /\ UNCHANGED <<stored, expirationTimes, lastSave>>
               /\ returned' = Result("getOrDefault", key, value, clock)
    /\ UNCHANGED <<clock, debounceVars>>
    /\ UNCHANGED <<busVars, smVars, appVars, formVars, toastVars, envVars>>

----------------------------------------------------------------------------
(* MetaTagsApp: construction, user events and the statements of its handlers *)

(* what the page shows before the first update *)
PageAsLoaded == <<"as loaded">>

(* the page, the storage and the handler after the constructor (part_001:24-61) *)
InitPage ==
    /\ objects = <<EmptyObject>>
    /\ formData = 1
    /\ currentCategory = "basic"
    /\ inputs = rendered("basic", EmptyObject)
    /\ fieldErrors = {}
    /\ codeOutput = PageAsLoaded
    /\ livePreview = PageAsLoaded
    /\ metaStats = PageAsLoaded
    /\ toast = "Application loaded successfully"
    /\ previewType = "google"
    /\ storage = NothingSaved
    /\ todo = <<>>
    /\ op = "init"
    /\ payload = [field |-> "title", value |-> EmptyString]
    /\ trace = <<>>
    /\ processed = 0

(* the app: its bus has the two listeners of setupEventListeners, its state
   manager the subscriber of init *)
InitApp ==
    /\ InitPage
    /\ events = [n \in {"formFieldChanged", "validationError"} |->
                    IF n = "formFieldChanged"
                    THEN <<Listener("handleFieldChange", 0, 1)>>
                    ELSE <<Listener("toastError", 0, 2)>>]
    /\ onceEvents = [n \in {"formFieldChanged", "validationError"} |-> <<>>]
    /\ nextId = 2
    /\ handles = {}
    /\ InitDispatch
    /\ state = [k \in {"formData"} |-> Absent]
    /\ subscribers = [k \in {"formData", WILDCARD} |->
                         IF k = "formData" THEN <<1>> ELSE <<>>]
    /\ computes = <<NoName>>
    /\ subCount = 1
    /\ InitManager
    /\ InitTime
    /\ InitForm
    /\ toasts = <<1>>
    /\ attached = {1}
    /\ toastTimers = <<[toast |-> 1, due |-> defaultDuration, kind |-> "auto"]>>
    /\ toastCount = 1
    /\ container = TRUE
    /\ confirms = {}
    /\ validatorLoaded \in BOOLEAN

busRest == <<events, onceEvents, middleware, dispatchVars, promises,
             asyncState, waitVars, nextId, handles, emits>>
managerRest == <<subscribers, setChain, computes, notifyMode, savedMode, collected, inBatch,
                 changes, snapshots, lastCall, undoResult, undoTarget,
                 undoEntry, subCount, calls>>
managerVars == <<state, history, delivered>>
pageVars == <<inputs, fieldErrors, codeOutput, livePreview, metaStats, toast>>

(* the statements of handleFieldChange (part_001:205-216) *)
handleFieldChangeStale ==
    <<"updateCodeOutput", "commit", "stateSet", "updatePreview", "updateStats">>

handleFieldChange ==
    <<"commit", "stateSet", "updateCodeOutput", "updatePreview", "updateStats">>

(* a reset that leaves this.formData as it is *)
onConfirmKeeping ==
    <<"stateSet", "storageClear", "renderForm",
      "updateCodeOutput", "updatePreview", "updateStats", "toast">>

(* the statements of handleReset's onConfirm (part_001:327-336) *)
onConfirm ==
    <<"clearData", "stateSet", "storageClear", "renderForm",
      "updateCodeOutput", "updatePreview", "updateStats", "toast">>

(* an onload that takes the data of every document that can be parsed *)
onloadPartial(doc) ==
    IF doc.kind = "garbage" THEN <<"toast">>
    ELSE <<"replaceData", "stateSet", "renderForm",
           "updateCodeOutput", "updatePreview", "updateStats", "toast">>

(* the statements reader.onload executes for a document (part_001:377-393):
   JSON.parse or data.data throws and the catch shows a toast; data.data is
   undefined and nothing is done; or the data is taken *)
onload(doc) ==
    CASE doc.kind \in {"garbage", "null"} -> <<"toast">>
      [] doc.kind = "nodata" -> <<>>
      [] OTHER -> <<"replaceData", "stateSet", "renderForm",
                    "updateCodeOutput", "updatePreview", "updateStats", "toast">>

(* a user event is dispatched when no handler is running *)
Begin(event, data, script) ==
    /\ todo = <<>>
    /\ processed < MaxUserEvents
    /\ processed' = processed + 1
    /\ op' = event
    /\ payload' = data
    /\ todo' = script
    /\ trace' = <<>>

(* the running handler executes its next statement *)
Execute(stmt) ==
    /\ todo # <<>>
    /\ Head(todo) = stmt
    /\ todo' = Tail(todo)
    /\ trace' = Append(trace, stmt)
    /\ UNCHANGED <<op, payload, processed>>

(* the input listener: eventBus.emit('formFieldChanged', { field, value }) *)
FieldInput(field, value) ==
    /\ field \in DOMAIN inputs
    /\ Begin("formFieldChanged", [field |-> field, value |-> value], handleFieldChange)
    /\ inputs' = [inputs EXCEPT ![field] = value]
    /\ eventHistory' = AddToHistory(eventHistory, "formFieldChanged")
    /\ UNCHANGED <<objects, formData, currentCategory, fieldErrors, codeOutput,
                   livePreview, metaStats, toast, storage>>
    /\ UNCHANGED <<busRest, smVars, timeVars, formVars, toastVars, envVars>>

(* the blur listener: this.validateField(e.target) *)
Blur(field) ==
    /\ field \in DOMAIN inputs
    /\ Begin("blur", [field |-> field, value |-> inputs[field]], <<"validateField">>)
    /\ UNCHANGED <<objects, formData, currentCategory, pageVars, storage>>
    /\ UNCHANGED <<busVars, smVars, timeVars, formVars, toastVars, envVars>>

(* the reset button and the answer given in the modal *)
Reset(confirmed) ==
    /\ Begin("reset", [confirmed |-> confirmed],
             IF confirmed THEN onConfirm ELSE <<>>)
    /\ UNCHANGED <<objects, formData, currentCategory, pageVars, storage>>
    /\ UNCHANGED <<busVars, smVars, timeVars, formVars, toastVars, envVars>>

(* the import button: the chosen file has been read *)
Import(doc) ==
    /\ Begin("import", doc, onload(doc))
    /\ UNCHANGED <<objects, formData, currentCategory, pageVars, storage>>
    /\ UNCHANGED <<busVars, smVars, timeVars, formVars, toastVars, envVars>>

(* a click in the category navigation *)
SwitchCategory(category) ==
    /\ Begin("switchCategory", [category |-> category], <<"renderForm", "updatePreview">>)
    /\ currentCategory' = category
    /\ UNCHANGED <<objects, formData, pageVars, storage>>
    /\ UNCHANGED <<busVars, smVars, timeVars, formVars, toastVars, envVars>>

(* the select #previewType changes (part_001:115-118) *)
PreviewTypeChange(type) ==
    /\ Begin("previewTypeChanged", [type |-> type], <<"updatePreview">>)
    /\ previewType' = type
    /\ UNCHANGED <<objects, formData, currentCategory, pageVars, storage>>
    /\ UNCHANGED <<busVars, smVars, timeVars, formVars, toastVars, validatorLoaded>>

(* the export and the download button: a file is offered, a toast shown *)
Export ==
    /\ Begin("export", [data |-> objects[formData]], <<"toast">>)
    /\ UNCHANGED <<objects, formData, currentCategory, pageVars, storage>>
    /\ UNCHANGED <<busVars, smVars, timeVars, formVars, toastVars, envVars>>

Download ==
    /\ Begin("download", [text |-> generate(objects[formData])], <<"toast">>)
    /\ UNCHANGED <<objects, formData, currentCategory, pageVars, storage>>
    /\ UNCHANGED <<busVars, smVars, timeVars, formVars, toastVars, envVars>>

(* the promise of navigator.clipboard.writeText settles after a click on the
   copy button *)
CopySettled(written) ==
    /\ Begin("copy", [written |-> written], <<"toast">>)
    /\ UNCHANGED <<objects, formData, currentCategory, pageVars, storage>>
    /\ UNCHANGED <<busVars, smVars, timeVars, formVars, toastVars, envVars>>

(* eventBus.emit('validationError', error): the listener of part_001:126-128 *)
ValidationError(message) ==
    /\ Begin("validationError", [message |-> message], <<"toast">>)
    /\ eventHistory' = AddToHistory(eventHistory, "validationError")
    /\ UNCHANGED <<objects, formData, currentCategory, pageVars, storage>>
    /\ UNCHANGED <<busRest, smVars, timeVars, formVars, toastVars, envVars>>

(* the interval of setupAutoSave fires *)
AutoSave ==
    /\ Begin("autoSave", [keys |-> Cardinality(DOMAIN objects[formData])], <<>>)
    /\ storage' = IF DOMAIN objects[formData] # {}
                  THEN Serialized(objects[formData]) ELSE storage
    /\ UNCHANGED <<objects, formData, currentCategory, pageVars>>
    /\ UNCHANGED <<busVars, smVars, timeVars, formVars, toastVars, envVars>>

(* this.formData[field] = value *)
Commit ==
    /\ Execute("commit")
    /\ objects' = [objects EXCEPT
                      ![formData] = AssignField(@, payload.field, payload.value)]
    /\ UNCHANGED <<formData, currentCategory, pageVars, storage>>
    /\ UNCHANGED <<busVars, smVars, timeVars, formVars, toastVars, envVars>>

(* this.formData = {} *)
ClearData ==
    /\ Execute("clearData")
    /\ objects' = Append(objects, EmptyObject)
    /\ formData' = Len(objects) + 1
    /\ UNCHANGED <<currentCategory, pageVars, storage>>
    /\ UNCHANGED <<busVars, smVars, timeVars, formVars, toastVars, envVars>>

(* this.formData = data.data *)
ReplaceData ==
    /\ Execute("replaceData")
    /\ objects' = Append(objects, payload.data)
    /\ formData' = Len(objects) + 1
    /\ UNCHANGED <<currentCategory, pageVars, storage>>
    /\ UNCHANGED <<busVars, smVars, timeVars, formVars, toastVars, envVars>>

(* this.state.set('formData', ...): with this.formData, or with a new {} in
   onConfirm; the subscriber of init saves what it is given *)
StateSet ==
    LET fresh == op = "reset"
        value == IF fresh THEN Ref(Len(objects) + 1) ELSE Ref(formData)
        oldValue == Get(state, "formData")
        heap == IF fresh THEN Append(objects, EmptyObject) ELSE objects
        calledBack == Delivered(notifyMode, subscribers,
                                Change("formData", value, oldValue))
    IN /\ Execute("stateSet")
       /\ objects' = heap
       /\ history' = AddEntry(history, [type |-> "SET", key |-> "formData",
                                        oldValue |-> oldValue, newValue |-> value])
       /\ state' = SetPath(state, "formData", value)
       /\ delivered' = calledBack
       /\ storage' = IF calledBack # <<>> THEN Serialized(heap[value.n]) ELSE storage
       /\ UNCHANGED <<formData, currentCategory, pageVars>>
       /\ UNCHANGED <<busVars, managerRest, timeVars, formVars, toastVars, envVars>>

(* this.storage.clear() *)
StorageClear ==
    /\ Execute("storageClear")
    /\ storage' = NothingSaved
    /\ UNCHANGED <<objects, formData, currentCategory, pageVars>>
    /\ UNCHANGED <<busVars, smVars, timeVars, formVars, toastVars, envVars>>

(* this.renderForm(this.currentCategory): the container gets new inputs *)
RenderForm ==
    /\ Execute("renderForm")
    /\ inputs' = rendered(currentCategory, objects[formData])
    /\ fieldErrors' = {}
    /\ UNCHANGED <<objects, formData, currentCategory, codeOutput, livePreview,
                   metaStats, toast, storage>>
    /\ UNCHANGED <<busVars, smVars, timeVars, formVars, toastVars, envVars>>

UpdateCodeOutput ==
    /\ Execute("updateCodeOutput")
    /\ codeOutput' = generate(objects[formData])
    /\ UNCHANGED <<objects, formData, currentCategory, inputs, fieldErrors,
                   livePreview, metaStats, toast, storage>>
    /\ UNCHANGED <<busVars, smVars, timeVars, formVars, toastVars, envVars>>

UpdatePreview ==
    /\ Execute("updatePreview")
    /\ livePreview' = generatePreview(objects[formData], previewType)
    /\ UNCHANGED <<objects, formData, currentCategory, inputs, fieldErrors,
                   codeOutput, metaStats, toast, storage>>
    /\ UNCHANGED <<busVars, smVars, timeVars, formVars, toastVars, envVars>>

UpdateStats ==
    /\ Execute("updateStats")
    /\ metaStats' = getStats(objects[formData])
    /\ UNCHANGED <<objects, formData, currentCategory, inputs, fieldErrors,
                   codeOutput, livePreview, toast, storage>>
    /\ UNCHANGED <<busVars, smVars, timeVars, formVars, toastVars, envVars>>

(* this.toast.show(message, type): the last statement of onConfirm, of
   onload or its catch, of handleExport and handleDownload, of the callbacks
   of handleCopyCode, and the listener of validationError *)
Toast ==
    /\ Execute("toast")
    /\ toast' = CASE op = "reset" -> "All data has been reset"
                  [] op = "import" /\ payload.kind = "data" ->
                         "Configuration imported successfully"
                  [] op = "import" -> "Invalid configuration file"
                  [] op = "export" -> "Configuration exported successfully"
                  [] op = "download" -> "HTML file downloaded"
                  [] op = "copy" /\ payload.written -> "Code copied to clipboard"
                  [] op = "copy" -> "Failed to copy code"
                  [] OTHER -> payload.message
    /\ show(defaultDuration)
    /\ UNCHANGED <<objects, formData, currentCategory, inputs, fieldErrors,
                   codeOutput, livePreview, metaStats, storage>>
    /\ UNCHANGED <<busVars, smVars, timeVars, formVars, envVars>>

(* MetaTagsApp.validateField: the error is shown or cleared *)
ValidateField ==
    /\ Execute("validateField")
    /\ fieldErrors' =
           IF validateField(Element(payload.field), payload.value).valid
           THEN fieldErrors \ {payload.field}
           ELSE fieldErrors \cup {payload.field}
    /\ UNCHANGED <<objects, formData, currentCategory, inputs, codeOutput,
                   livePreview, metaStats, toast, storage>>
    /\ UNCHANGED <<busVars, smVars, timeVars, formVars, toastVars, envVars>>

----------------------------------------------------------------------------
(* Specifications *)

(* Synchronous publish/subscribe: priorities, once, wildcard, middleware. *)
NextBus ==
    \/ \E cb \in {"a", "t"}, prio \in Priorities : Listen("e", cb, prio)
    \/ Listen("e", "s", HighPriority)
    \/ \E cb \in {"a", "t"} : Listen(WILDCARD, cb, 0)
    \/ \E cb \in {"a", "t"} : Once("e", cb)
    \/ \E cb \in {"a", "t", "s"} : Off("e", cb)
    \/ \E cb \in {"a", "t"} : Off(WILDCARD, cb)
    \/ \E kind \in MiddlewareKinds : Use(kind)
    \/ Emit("e", "sync")
    \/ Invoke

InitEventBus ==
    /\ InitBus /\ InitState /\ InitPage /\ InitTime /\ InitForm /\ InitToast
    /\ validatorLoaded = FALSE
SpecBus == InitEventBus /\ [][NextBus]_vars

(* emitAsync with listeners that throw, reject, or settle later, with
   middleware it awaits, and the calls that change the registry meanwhile. *)
NextAsync ==
    \/ \E cb \in {"a", "t", "r", "p"}, prio \in Priorities : On("e", cb, prio)
    \/ \E cb \in {"a", "t"} : Once("e", cb)
    \/ \E cb \in {"a", "t"} : Off("e", cb)
    \/ \E name \in {"e", NoName} : RemoveAllListeners(name)
    \/ ClearHistory
    \/ \E kind \in MiddlewareKinds : Use(kind)
    \/ Emit("e", "async")
    \/ Resume
    \/ Invoke
    \/ \E id \in 1..MaxSubs : SettlePromise(id)

SpecAsync == InitEventBus /\ [][NextAsync]_vars

(* waitFor, its timer, and emits of the awaited event. *)
NextWait ==
    \/ \E prio \in Priorities : On("e", "a", prio)
    \/ Once("e", "a")
    \/ UnsubscribeOnce("e", "a")
    \/ WaitFor("e")
    \/ WaitTimeout("e")
    \/ Emit("e", "sync")
    \/ Invoke

SpecWait == InitEventBus /\ [][NextWait]_vars

(* Listeners that unsubscribe another listener of the event while it is
   being dispatched. *)
NextReenter ==
    \/ \E cb \in {"a", "u"}, prio \in Priorities : On("e", cb, prio)
    \/ On(WILDCARD, "u", 0)
    \/ Once("e", "a")
    \/ Emit("e", "sync")
    \/ Invoke

SpecReenter == InitEventBus /\ [][NextReenter]_vars

(* Subscriptions and the unsubscribe functions that on returned for them. *)
NextHandle ==
    \/ \E cb \in {"a", "t"}, prio \in Priorities : On("e", cb, prio)
    \/ \E id \in 1..MaxSubs : Unsubscribe("e", id)
    \/ Emit("e", "sync")
    \/ Invoke

SpecHandle == InitEventBus /\ [][NextHandle]_vars

(* Listeners that subscribe a further listener to the event while it is
   being dispatched. *)
NextSubscribe ==
    \/ \E cb \in {"a", "n"}, prio \in Priorities : On("e", cb, prio)
    \/ Emit("e", "sync")
    \/ Invoke

SpecSubscribe == InitEventBus /\ [][NextSubscribe]_vars

(* Debounced and throttled subscriptions, their triggers and their timers. *)
NextDebounce ==
    \/ Debounce
    \/ Throttle
    \/ \E data \in Payloads : Trigger(data)
    \/ TimeoutFires
    \/ Tick

SpecDebounce == InitEventBus /\ [][NextDebounce]_vars

(* The storage manager and the clock. *)
NextStorage ==
    \/ \E k \in StorageKeys, d \in StoredData, ttl \in TTLs : Save(k, d, ttl)
    \/ \E k \in StorageKeys : Load(k)
    \/ \E k \in StorageKeys : HasKey(k)
    \/ \E k \in StorageKeys : Remove(k)
    \/ CleanExpired
    \/ Clear_Storage
    \/ ExportAll
    \/ \E data \in Imports : ImportAll(data)
    \/ Update_Storage("k", "w")
    \/ GetOrDefault("k", "v")
    \/ Tick

SpecStorage == InitEventBus /\ [][NextStorage]_vars

(* The Open Graph form is filled in and validated. *)
NextValidate ==
    \/ \E v \in {Website, Article} : FillField("og_type", v)
    \/ \E f \in {"article_author", "article_section"}, v \in FieldValues :
          FillField(f, v)
    \/ ValidateForm

SpecValidate == InitEventBus /\ [][NextValidate]_vars

(* The Open Graph and schema fields are filled in, and the tags generated. *)
SubProperties ==
    {"article_section", "schema_logo", "schema_contact_type",
     "schema_telephone", "schema_job_title", "schema_headline",
     "schema_author_name"}

NextGenerate ==
    \/ \E v \in {Website, Article} : FillField("og_type", v)
    \/ \E v \in {Organization, Person, SchemaArticle} : FillField("schema_type", v)
    \/ \E v \in {EmptyString, <<"a">>, <<"<">>} : FillField("article_author", v)
    \/ \E f \in SubProperties : FillField(f, <<"a">>)
    \/ Generate

SpecGenerate == InitEventBus /\ [][NextGenerate]_vars

(* Values with markup characters in the fields of each kind of tag. *)
MarkupValues == {<<"a">>, <<"<">>, <<"a", "&">>, <<">">>}

NextEscape ==
    \/ \E f \in {"title", "canonical", "og_title", "schema_name"},
          v \in MarkupValues : FillField(f, v)
    \/ FillField("schema_type", Person)
    \/ Generate

SpecEscape == InitEventBus /\ [][NextEscape]_vars

(* The recommended fields are filled in, and the map is scored. *)
Text(n) == [i \in 1..n |-> "a"]
Recommended ==
    {"keywords", "og_title", "og_description", "og_image", "og_url",
     "twitter_card", "twitter_title", "twitter_image", "canonical", "robots",
     "language", "schema_type"}

NextScore ==
    \/ \E n \in {1, 30, 61} : FillField("title", Text(n))
    \/ \E n \in {1, 119, 120, 161} : FillField("description", Text(n))
    \/ \E f \in Recommended : FillField(f, <<"a">>)
    \/ Score
    \/ ScoreValidator

SpecScore == InitEventBus /\ [][NextScore]_vars

(* StateManager on its own: calls, undo, batch, subscriptions, middleware
   and computed values. *)
NextState ==
    \/ \E key \in Keys, value \in SetValues : Set(key, value)
    \/ \E key \in Keys, updates \in Updates : Update(key, updates)
    \/ \E key \in Keys : Delete(key)
    \/ \E newState \in NewStates : SetState(newState)
    \/ Clear
    \/ Undo
    \/ \E key \in {"a", WILDCARD} : Subscribe(key)
    \/ \E key \in {"a", WILDCARD}, sub \in 1..MaxSubscribers : StateUnsubscribe(key, sub)
    \/ \E kind \in StateMiddlewareKinds : StateUse(kind)
    \/ Computed("b")
    \/ BatchBegin
    \/ BatchEnd
    \/ BatchThrow

InitStateManager ==
    /\ InitState /\ InitBus /\ InitPage /\ InitTime /\ InitForm /\ InitToast
    /\ validatorLoaded = FALSE
SpecState == InitStateManager /\ [][NextState]_vars

NextToast ==
    \/ \E duration \in Durations : Show(duration)
    \/ Loading
    \/ Confirm
    \/ \E el \in 1..MaxShown, button \in {"confirm", "cancel"} : Answer(el, button)
    \/ \E el \in 1..MaxShown : Close(el)
    \/ RemoveAll
    \/ ToastTimerFires
    \/ clock < MaxToastClock /\ Tick

(* the page may lack #toastContainer *)
InitNotification ==
    /\ InitBus /\ InitState /\ InitPage /\ InitTime /\ InitForm /\ InitToasts
    /\ container \in BOOLEAN
    /\ validatorLoaded = FALSE
SpecToast == InitNotification /\ [][NextToast]_vars

(* Enough set calls to fill the history, and undo. *)
NextHistory ==
    \/ SetNext
    \/ Undo

SpecHistory == InitStateManager /\ [][NextHistory]_vars

(* The orchestrator: user events, each handled statement by statement. *)
NextApp ==
    \/ \E field \in Fields, value \in FieldValues : FieldInput(field, value)
    \/ \E field \in Fields : Blur(field)
    \/ \E confirmed \in BOOLEAN : Reset(confirmed)
    \/ \E doc \in Documents : Import(doc)
    \/ \E category \in Categories : SwitchCategory(category)
    \/ \E type \in PreviewTypes : PreviewTypeChange(type)
    \/ Export
    \/ Download
    \/ \E written \in BOOLEAN : CopySettled(written)
    \/ ValidationError("Invalid value")
    \/ AutoSave
    \/ Commit
    \/ ClearData
    \/ ReplaceData
    \/ StateSet
    \/ StorageClear
    \/ RenderForm
    \/ UpdateCodeOutput
    \/ UpdatePreview
    \/ UpdateStats
    \/ Toast
    \/ ValidateField

SpecApp == InitApp /\ [][NextApp]_vars

\* state.undo() called on the application's state manager between two user
\* events: the last history entry is popped, its oldValue is put back under
\* its key, and the formData subscriber saves what it is handed.
Saved(value) ==
    IF value.t = "ref" THEN Serialized(objects[value.n])
    ELSE [version |-> "2.0.0"]

StateUndo ==
    /\ todo = <<>>
    /\ processed < MaxUserEvents
    /\ history # <<>>
    /\ LET lastChange == history[Len(history)]
           c == UndoChange(state, lastChange)
           calledBack == Delivered(notifyMode, subscribers, c)
       IN /\ history' = SubSeq(history, 1, Len(history) - 1)
          /\ state' = UndoState(state, lastChange)
          /\ delivered' = calledBack
          /\ storage' = IF \E i \in 1..Len(calledBack) : ~calledBack[i].wild
                        THEN Saved(c.new) ELSE storage
    /\ processed' = processed + 1
    /\ op' = "undo"
    /\ trace' = <<"undo">>
    /\ UNCHANGED <<objects, formData, currentCategory, pageVars, todo, payload>>
    /\ UNCHANGED <<busVars, managerRest, timeVars, formVars, toastVars, envVars>>

NextUndo ==
    \/ \E field \in Fields, value \in FieldValues : FieldInput(field, value)
    \/ \E category \in Categories : SwitchCategory(category)
    \/ RenderForm
    \/ Commit
    \/ StateSet
    \/ UpdateCodeOutput
    \/ UpdatePreview
    \/ UpdateStats
    \/ StateUndo

SpecUndo == InitApp /\ [][NextUndo]_vars

\* The Open Graph category: its type select and the article fields that
\* formCategories renders only for og_type = article.
NextRender ==
    \/ \E value \in {Website, Article} : FieldInput("og_type", value)
    \/ \E field \in {"article_author", "article_section"} :
          FieldInput(field, <<"a">>)
    \/ \E category \in {"basic", "opengraph"} : SwitchCategory(category)
    \/ RenderForm
    \/ Commit
    \/ StateSet
    \/ UpdateCodeOutput
    \/ UpdatePreview
    \/ UpdateStats

SpecRender == InitApp /\ [][NextRender]_vars


----------------------------------------------------------------------------
(* EventBus: properties *)

Vetoed == \E i \in 1..Len(mwAtEmit) : mwAtEmit[i] = "veto"

Phase(p) == SelectSeq(log, LAMBDA x : x.phase = p)

(* the emit ran all its loops undisturbed: not cancelled, nobody stopped the
   propagation, nobody changed the registry while it ran *)
Undisturbed == emits > 0 /\ ~Vetoed /\ ~stopped /\ ~touched

(* higher priority first, and among equal priorities the earlier subscription *)
InSubscriptionOrder(lg) ==
    \A i, j \in 1..Len(lg) :
        i < j => \/ lg[i].priority > lg[j].priority
                 \/ lg[i].priority = lg[j].priority /\ lg[i].id < lg[j].id

(* C1: in every emit the listeners of the event are invoked in descending
   priority order, listeners of equal priority in the order in which they were
   subscribed; every emit whose regular loop has run to its end has invoked
   exactly the listeners subscribed at the emit, in that one order. *)
C1_PriorityOrder ==
    /\ InSubscriptionOrder(Phase("regular"))
    /\ InSubscriptionOrder(Phase("wildcard"))
    /\ (Undisturbed /\ pc # "regular") =>
           /\ Ids(Phase("regular")) = startIds.regular
           /\ Len(Phase("regular")) = Cardinality(startIds.regular)

C1_Witness ==
    /\ pc = "idle" /\ emits = 2 /\ Undisturbed
    /\ Len(Phase("regular")) = 3
    /\ \E i, j \in 1..3 : /\ i < j
                          /\ log[i].priority = log[j].priority
    /\ \E i, j \in 1..3 : log[i].priority > log[j].priority

(* C2: a listener that throws during emit does not keep any other listener of
   the event (regular, once, wildcard) from being invoked in the same emit,
   and emit does not throw. *)
C2_ThrowIsCaught ==
    (mode = "sync" /\ (\E i \in 1..Len(log) : log[i].callback = "t")) =>
        /\ ~emitThrew
        /\ (pc = "idle" /\ Undisturbed) =>
               /\ Ids(Phase("regular")) = startIds.regular
               /\ Ids(Phase("once")) = startIds.once
               /\ Ids(Phase("wildcard")) = startIds.wildcard

C2_Witness ==
    /\ mode = "sync" /\ pc = "idle" /\ Undisturbed
    /\ Len(log) = 3
    /\ log[1].callback = "t" /\ log[1].phase = "regular"
    /\ log[2].phase = "once"
    /\ log[3].phase = "wildcard"

(* C3: a listener that throws or returns a rejected promise neither keeps the
   other listeners of the event from being invoked by emitAsync nor makes the
   promise emitAsync returns reject. *)
C3_AsyncFailureIsCaught ==
    (mode = "async" /\ pc = "idle" /\ awaiting = 0 /\ Undisturbed) =>
        /\ Ids(Phase("regular")) = startIds.regular
        /\ Ids(Phase("once")) = startIds.once
        /\ asyncState # "rejected"

(* C4: when a middleware cancels an emit, no regular, once or wildcard listener
   is invoked for it, and the event is the newest entry of the history. *)
C4_VetoStillRecorded ==
    (emits > 0 /\ Vetoed) =>
        /\ log = <<>>
        /\ pc = "idle"
        /\ Len(eventHistory) = emits
        /\ eventHistory[Len(eventHistory)] = curName

C4_Witness ==
    /\ emits > 0 /\ Vetoed
    /\ Len(events["e"]) > 0
    /\ Len(onceEvents["e"]) > 0
    /\ Len(events[WILDCARD]) > 0

Registered(cb) ==
    \E name \in EventNames :
        \/ \E i \in 1..Len(events[name]) : events[name][i].callback = cb
        \/ \E i \in 1..Len(onceEvents[name]) : onceEvents[name][i].callback = cb

(* C5: once the promise of waitFor is settled, by the event or by the timeout,
   its handler is no longer registered and no later emit invokes it. *)
C5_WaitForUnregisters ==
    waitState \in {"resolved", "rejected"} => (~Registered("w") /\ ~waitLate)

----------------------------------------------------------------------------
(* StateManager: properties *)

(* the keys whose value differs between two states *)
ChangedKeys(before, after) == {k \in Keys : before[k] # after[k]}

(* the state on which the entry's call had left the manager *)
StateAfterCall(e) ==
    CASE e.type = "REPLACE_STATE" -> e.newValue
      [] e.type = "CLEAR" -> EmptyState
      [] OTHER -> EmptyState

(* subscriber sub of key k received a notification for k *)
NotifiedOf(k, sub) ==
    \E i \in 1..Len(delivered) :
        delivered[i].sub = sub /\ ~delivered[i].wild /\ delivered[i].key = k

(* C6: an undo() that follows a mutating call returns true, leaves the state
   exactly as it was before that call (a key that was absent is absent
   again), and notifies the subscribers of every key it changed. *)
C6_UndoRestores ==
    (lastCall = "undo" /\ undoEntry.type # "NONE") =>
        /\ undoResult
        /\ state = undoTarget
        /\ (~inBatch /\ undoEntry.type \in {"SET", "DELETE"}) =>
               \A i \in 1..Len(subscribers[undoEntry.key]) :
                   NotifiedOf(undoEntry.key, subscribers[undoEntry.key][i])
        /\ (~inBatch /\ undoEntry.type \in {"REPLACE_STATE", "CLEAR"}) =>
               \A k \in ChangedKeys(StateAfterCall(undoEntry), state) :
                   \A i \in 1..Len(subscribers[k]) :
                       NotifiedOf(k, subscribers[k][i])

(* one notification for change c to each subscriber it matches: the
   subscribers of its key, then the wildcard subscribers *)
OnceEach(subs, c) ==
    (IF c.key \in Keys
     THEN [i \in 1..Len(subs[c.key]) |->
              [sub |-> subs[c.key][i], wild |-> FALSE, key |-> c.key,
               new |-> c.new, old |-> c.old]]
     ELSE <<>>)
    \o
    [i \in 1..Len(subs[WILDCARD]) |->
        [sub |-> subs[WILDCARD][i], wild |-> TRUE, key |-> c.key,
         new |-> c.new, old |-> c.old]]

RECURSIVE OncePerChange(_, _)
OncePerChange(subs, cs) ==
    IF cs = <<>> THEN <<>>
    ELSE OnceEach(subs, cs[1]) \o OncePerChange(subs, Tail(cs))

(* every subscribed callback is a plain one: none is the callback of a
   computed value, which makes a change of its own when it is called *)
PlainCallbacks == \A i \in 1..Len(computes) : computes[i] = NoName

(* C7: while the function of batch runs no subscriber is notified; when it
   has returned, every change it made has been delivered to the subscribers
   it matches exactly once, in the order of the changes (the callbacks being
   plain ones, so that the changes of the batch are all there is to deliver). *)
C7_BatchFlush ==
    /\ inBatch => delivered = <<>>
    /\ (lastCall = "batchReturned" /\ PlainCallbacks) =>
           delivered = OncePerChange(subscribers, changes)

----------------------------------------------------------------------------
(* MetaTagsApp: properties *)

Idle == todo = <<>>

(* the statement has been executed by the running / last handler *)
Executed(stmt) == \E i \in 1..Len(trace) : trace[i] = stmt

Index(stmt) == CHOOSE i \in 1..Len(trace) : trace[i] = stmt

(* the submitted value is in this.formData and in the 'formData' entry of
   the state manager *)
ValueCommitted ==
    /\ Has(objects[formData], payload.field)
    /\ objects[formData][payload.field] = payload.value
    /\ state["formData"].t = "ref"
    /\ Has(objects[state["formData"].n], payload.field)
    /\ objects[state["formData"].n][payload.field] = payload.value

Invalid(field, value) == ~validateField(Element(field), value).valid

(* C8: when a {field, value} event has been processed, formData[field] is
   the submitted value and the 'formData' entry of the state manager holds
   it, whether the value is valid or not; a validation that runs later shows
   or clears an error and leaves the committed data alone. *)
C8_CommitRegardlessOfValidity ==
    /\ []((op = "formFieldChanged" /\ Idle) => ValueCommitted)
    /\ [][(todo # <<>> /\ Head(todo) = "validateField") =>
             /\ objects' = objects
             /\ formData' = formData
             /\ state' = state
             /\ (payload.field \in fieldErrors')
                    = Invalid(payload.field, payload.value)]_vars

C8_Witness ==
    /\ op = "formFieldChanged"
    /\ Idle
    /\ Invalid(payload.field, payload.value)
    /\ payload.field = "canonical"
    /\ payload.value # EmptyString
    /\ ValueCommitted
    /\ Len(codeOutput) > 0

(* C9: while a field-change event is handled, validateField has been run
   on the changed field before its value is committed. *)
C9_ValidatedBeforeCommit ==
    (op = "formFieldChanged" /\ Executed("commit")) =>
        /\ Executed("validateField")
        /\ Index("validateField") < Index("commit")

(* C10: in the handler of a field change the markup and the preview are
   generated after the commit, from the map that holds the new value; and
   whenever no handler is running, once a field change, a reset or a
   successful import has been processed, the markup and the preview shown
   are the ones generated from the current formData. *)
C10_DisplayIsGenerated ==
    /\ (op = "formFieldChanged" /\ Executed("updateCodeOutput")) =>
           /\ Executed("commit")
           /\ Index("commit") < Index("updateCodeOutput")
           /\ ValueCommitted
           /\ codeOutput = generate(objects[formData])
    /\ (op = "formFieldChanged" /\ Executed("updatePreview")) =>
           /\ Executed("commit")
           /\ Index("commit") < Index("updatePreview")
           /\ livePreview = generatePreview(objects[formData], previewType)
    /\ (Idle /\ history # <<>>) =>
           /\ codeOutput = generate(objects[formData])
           /\ livePreview = generatePreview(objects[formData], previewType)

C10_Witness ==
    /\ Idle
    /\ op = "formFieldChanged"
    /\ Len(history) >= 3
    /\ \E i \in 1..Len(history) : history[i].newValue.n > 1
    /\ Len(codeOutput) = 2
    /\ codeOutput = generate(objects[formData])

(* the map this.formData refers to *)
TheMap == objects[formData]

(* this step gives this.formData another object or other contents *)
MapChanges == formData' # formData \/ objects'[formData'] # objects[formData]

Running(stmt) == todo # <<>> /\ Head(todo) = stmt

ImportFailed == op = "import" /\ payload.kind # "data"

(* C12: an import of a document that cannot be parsed or has no data key
   leaves formData, the state manager (state and history), the stored
   snapshot and everything rendered exactly as they were. *)
C12_FailedImportChangesNothing ==
    [][(op' = "import" /\ payload'.kind # "data") =>
           UNCHANGED <<objects, formData, state, history, storage, inputs,
                       fieldErrors, codeOutput, livePreview, metaStats>>]_vars

C12_Witness ==
    /\ ImportFailed /\ Idle
    /\ payload.kind = "nodata"
    /\ TheMap # EmptyObject
    /\ storage # NothingSaved
    /\ Len(codeOutput) > 0 /\ codeOutput # PageAsLoaded

(* C13: when an import has failed, because the document could not be parsed
   or because it has no data key, the handler has shown an error
   notification. *)
C13_FailedImportNotifies ==
    (ImportFailed /\ Idle) =>
        /\ Executed("toast")
        /\ toast = "Invalid configuration file"

----------------------------------------------------------------------------
(* EventBus: unsubscribing during a dispatch *)

(* C14: a listener that a callback unsubscribes while its event is being
   dispatched is not invoked by any later emit; the dispatch during which it
   happens is not aborted: the unsubscribing callback and every listener that
   was registered when the emit began are invoked. *)
C14_UnsubscribeDuringDispatch ==
    /\ \A i \in 1..Len(log) : \A d \in dropped :
           d.id = log[i].id => d.emit = emits
    /\ (pc = "idle" /\ emits > 0 /\ ~Vetoed /\ ~stopped) =>
           /\ Ids(Phase("regular")) = startIds.regular
           /\ Ids(Phase("once")) = startIds.once
           /\ Ids(Phase("wildcard")) = startIds.wildcard

C14_Witness ==
    /\ pc = "idle" /\ emits = 2
    /\ \E d \in dropped : d.emit = 1 /\ d.id \notin Ids(log)
    /\ \E i \in 1..Len(log) : log[i].callback = "a"
    /\ \E i \in 1..Len(log) : log[i].callback = "u"

----------------------------------------------------------------------------
(* EventBus.debounce *)

Debounced == {i \in 1..Len(ran) : ran[i].by = "debounce"}
RunsOf(sub) == Cardinality({i \in Debounced : ran[i].sub = sub})
DebounceSubscriptions ==
    {events["e"][i].id : i \in {j \in 1..Len(events["e"]) : events["e"][j].callback = "d"}}

(* C15 as claimed: a debounce subscription has at most one timer pending;
   every burst of triggers ends in exactly one run of the callback (a timer
   still pending stands for the run to come), and each run happens exactly
   one delay after the last trigger before it, with that trigger's payload. *)
C15_RunsOneDelayAfter ==
    /\ \A sub \in DebounceSubscriptions :
          /\ Cardinality(PendingOf(sub)) <= 1
          /\ RunsOf(sub) + Cardinality(PendingOf(sub)) = bursts[sub]
    /\ \A i \in Debounced :
          /\ ran[i].at = ran[i].after.at + Delay
          /\ ran[i].data = ran[i].after.data

(* C15 as amended: a debounce subscription has at most one timer pending;
   every burst of triggers ends in exactly one run of the callback (a timer
   still pending stands for the run to come), and each run happens no earlier
   than one delay after the last trigger before it, with that trigger's
   payload. *)
C15_DebounceRestarts ==
    /\ \A sub \in DebounceSubscriptions :
          /\ Cardinality(PendingOf(sub)) <= 1
          /\ RunsOf(sub) + Cardinality(PendingOf(sub)) = bursts[sub]
    /\ \A i \in Debounced :
          /\ ran[i].at >= ran[i].after.at + Delay
          /\ ran[i].data = ran[i].after.data

C15_Witness ==
    /\ emits = 3
    /\ timeouts = {}
    /\ bursts[1] = 1
    /\ Len(ran) >= 1
    /\ ran[1].sub = 1 /\ ran[1].data = "y" /\ ran[1].at = 4
    /\ ran[1].after.at = 1

----------------------------------------------------------------------------
(* StorageManager: entries with a time to live *)

SavedWithTTL(k) == lastSave[k].ttl # 0
Expiry(k) == lastSave[k].at + lastSave[k].ttl
Removes(k) == stored[k] # NoEntry /\ stored'[k] = NoEntry

(* C16: for a key whose last save gave a TTL, load returns the saved data and
   has returns true as long as the clock has not passed save time + TTL; a
   load or has after that returns null / false and leaves no entry; and an
   entry leaves the storage only in a call (a load or has of it, a
   cleanExpired or the load that exportAll makes of it once it has expired,
   its remove, clear or the clear that importAll makes), never when only the
   clock advances. *)
C16_LazyExpiry ==
    /\ [](\A k \in StorageKeys :
            (returned.key = k /\ SavedWithTTL(k)) =>
               /\ returned.call = "load" =>
                     returned.value = IF returned.at <= Expiry(k)
                                      THEN lastSave[k].data ELSE Null
               /\ returned.call = "has" =>
                     returned.value = (returned.at <= Expiry(k))
               /\ (returned.call \in {"load", "has"} /\ returned.at > Expiry(k)) =>
                     stored[k] = NoEntry /\ expirationTimes[k] = 0)
    /\ [][/\ clock' # clock => UNCHANGED <<stored, expirationTimes>>
          /\ \A k \in StorageKeys :
                Removes(k) =>
                   \/ /\ returned'.call \in {"load", "has"}
                      /\ returned'.key = k
                      /\ clock > expirationTimes[k]
                   \/ /\ returned'.call \in {"cleanExpired", "exportAll"}
                      /\ clock > expirationTimes[k]
                   \/ returned'.call = "remove" /\ returned'.key = k
                   \/ returned'.call \in {"clear", "importAll"}]_vars

C16_Witness ==
    /\ returned.call = "load" /\ returned.key = "k"
    /\ returned.value = Null
    /\ SavedWithTTL("k")
    /\ returned.at > Expiry("k") + 1
    /\ storageCalls = 3
    /\ stored["k"] = NoEntry

----------------------------------------------------------------------------
(* StateManager: the bounded history *)

Newest == history[Len(history)]

(* C17: the history never holds more than 50 entries; they are the most
   recent calls that have not been undone, in order and up to the current
   state; a call made on a full history drops the oldest entry and appends
   its own; an undo takes the newest entry and puts its old value back. *)
C17_HistoryBounded ==
    /\ [](/\ Len(history) <= maxStateHistory
          /\ \A i \in 1..(Len(history) - 1) :
                history[i + 1].oldValue = history[i].newValue
          /\ history # <<>> => Newest.newValue = Get(state, "a"))
    /\ [][/\ calls' # calls =>
                /\ Newest'.oldValue = Get(state, "a")
                /\ SubSeq(history', 1, Len(history') - 1) =
                      IF Len(history) < maxStateHistory
                      THEN history ELSE Tail(history)
          /\ (lastCall' = "undo" /\ history # <<>>) =>
                /\ history' = SubSeq(history, 1, Len(history) - 1)
                /\ Get(state', "a") = Newest.oldValue]_vars

C17_Witness ==
    /\ Len(history) = maxStateHistory - 1
    /\ history[1].newValue = Num(3)
    /\ lastCall = "undo" /\ undoResult
    /\ Get(state, "a") = Num(maxStateHistory + 1)

----------------------------------------------------------------------------
(* ValidationEngine.validateForm and conditional fields *)

Validated == result.call = "validateForm"
Unmet == {i \in 1..Len(OpenGraphFields) : ~conditionMet(OpenGraphFields[i], form)}
Met == {i \in 1..Len(OpenGraphFields) : conditionMet(OpenGraphFields[i], form)}
ValidAt(i) ==
    validateField(OpenGraphFields[i], ValueOf(form, OpenGraphFields[i].name)).valid

(* C18: validateForm reports no error for a field whose condition is not met,
   and its verdict is the verdict on the fields whose condition is met. *)
C18_UnmetConditionExcluded ==
    Validated =>
        /\ \A i \in Unmet : OpenGraphFields[i].name \notin DOMAIN result.value.errors
        /\ result.value.valid = (\A i \in Met : ValidAt(i))

----------------------------------------------------------------------------
(* MetaGenerator.generate and the fields that depend on a type *)

Generated == result.call = "generate"
Pieces(markup) == UNION {{markup[i][j] : j \in 1..Len(markup[i])} : i \in 1..Len(markup)}
Properties(tags) ==
    {tags[i].property : i \in {j \in 1..Len(tags) : tags[j].tag = "meta"}}
ArticleProperties == {articleMapping[i][2] : i \in 1..Len(articleMapping)}
OrganizationKeys == {"\"logo\"", "\"contactPoint\"", "\"telephone\"", "\"contactType\""}
PersonKeys == {"\"jobTitle\"", "\"worksFor\""}
ArticleKeys == {"\"headline\"", "\"datePublished\"", "\"dateModified\"", "\"author\""}

(* C19: the generated tags and markup hold an article:* property only when
   og_type is 'article', and the keys of an Organization, Person or Article
   schema only when schema_type is that kind; when the type matches, the
   values of the dependent fields are emitted. *)
C19_TypeGatesSubProperties ==
    Generated =>
        /\ ~Is(form, "og_type", Article) =>
              /\ Properties(result.tags) \cap ArticleProperties = {}
              /\ Pieces(result.value) \cap ArticleProperties = {}
        /\ ~Is(form, "schema_type", Organization) =>
              Pieces(result.value) \cap OrganizationKeys = {}
        /\ ~Is(form, "schema_type", Person) =>
              Pieces(result.value) \cap PersonKeys = {}
        /\ ~Is(form, "schema_type", SchemaArticle) =>
              Pieces(result.value) \cap ArticleKeys = {}
        /\ (Is(form, "og_type", Article) /\ Truthy(form, "article_author")) =>
              PropertyTag("article:author", form["article_author"])
                  \in {result.tags[i] : i \in 1..Len(result.tags)}
        /\ (Is(form, "schema_type", Organization) /\ Truthy(form, "schema_logo")) =>
              "\"logo\"" \in Pieces(result.value)
        /\ (Is(form, "schema_type", Person) /\ Truthy(form, "schema_job_title")) =>
              "\"jobTitle\"" \in Pieces(result.value)
        /\ (Is(form, "schema_type", SchemaArticle) /\ Truthy(form, "schema_headline")) =>
              "\"headline\"" \in Pieces(result.value)

C19_Witness ==
    /\ Generated
    /\ Is(form, "og_type", Website)
    /\ Truthy(form, "article_author") /\ Truthy(form, "article_section")
    /\ Is(form, "schema_type", Person)
    /\ Truthy(form, "schema_logo") /\ Truthy(form, "schema_headline")
    /\ Truthy(form, "schema_job_title")
    /\ "\"jobTitle\"" \in Pieces(result.value)
    /\ "og:type" \in Properties(result.tags)

----------------------------------------------------------------------------
(* calculateSEOScore *)

Scored == result.call \in {"calculateSEOScore", "validatorSEOScore"}
FillsAnother ==
    \E f \in DOMAIN form' :
        /\ ~Truthy(form, f)
        /\ Truthy(form', f)
        /\ \A g \in DOMAIN form : g # f => form'[g] = form[g]

(* C20: both calculateSEOScore functions return a number from 0 to 100 and 0
   for the empty map; no category gives more than its maximum (basic 30,
   open graph 25, twitter 15, seo 20, schema 10); and filling in a field that
   had no value does not lower the score. *)
C20_ScoreBoundedMonotone ==
    /\ [](/\ Scored => result.value \in 0..100
          /\ (Scored /\ form = EmptyObject) => result.value = 0
          /\ basicScore(form) \in 0..30
          /\ validatorBasicScore(form) \in 0..30
          /\ openGraphScore(form) \in 0..25
          /\ twitterScore(form) \in 0..15
          /\ seoScore(form) \in 0..20
          /\ schemaScore(form) \in 0..10)
    /\ [][FillsAnother =>
             /\ calculateSEOScore(form') >= calculateSEOScore(form)
             /\ validatorSEOScore(form') >= validatorSEOScore(form)]_vars

C20_Witness ==
    /\ result.call = "calculateSEOScore"
    /\ result.value = 100
    /\ validatorSEOScore(form) = 80
    /\ LengthOf(form, "description") = 161

----------------------------------------------------------------------------
(* MetaGenerator.formatTags: escaping *)

(* the pieces of the lines between the text that opens the tag and the text
   that closes it *)
Inside(markup) ==
    UNION {{markup[i][j] : j \in 2..(Len(markup[i]) - 1)} : i \in 1..Len(markup)}

(* C21: the markup returned by generate holds no '<', '>' or '&' of a form
   value as it was typed: every such character has been replaced by its
   entity.  (The fixed text inside a tag is made of longer pieces; a piece
   there that is one of these characters comes from a value.) *)
C21_ValuesEscaped ==
    Generated => Inside(result.value) \cap {"<", ">", "&"} = {}

----------------------------------------------------------------------------
(* EventBus: subscribing during a dispatch *)

(* C22: within one emit no subscription is invoked twice. *)
C22_InvokedOncePerEmit ==
    \A i, j \in 1..Len(log) : i # j => log[i].id # log[j].id

----------------------------------------------------------------------------
(* EventBus: once listeners *)

(* C23: after an emit, every once listener that was registered when the emit
   began has either been invoked by it or is still registered; and one that
   has been invoked is registered no more. *)
C23_OnceStaysUntilInvoked ==
    (pc = "idle" /\ emits > 0) =>
        /\ \A id \in startIds.once :
              id \in Ids(Phase("once")) \/ id \in Ids(onceEvents[curName])
        /\ Ids(Phase("once")) \cap Ids(onceEvents[curName]) = {}

----------------------------------------------------------------------------
(* EventBus: the unsubscribe function returned by on *)

(* C24: a step that takes subscriptions off an event takes off exactly one:
   all the others, those of the same callback included, stay registered. *)
C24_HandleRemovesOne ==
    [][\A name \in EventNames :
          Ids(events'[name]) # Ids(events[name]) =>
              \/ Cardinality(Ids(events'[name])) = Cardinality(Ids(events[name])) + 1
              \/ /\ Ids(events'[name]) \subseteq Ids(events[name])
                 /\ Cardinality(Ids(events[name]) \ Ids(events'[name])) = 1]_vars


\* C25: once two field changes through handleFieldChange on the map the page
\* starts with (no fields) have been followed by state.undo(), the map that
\* state.get('formData') returns is the map after the first change only, so
\* it holds no more than the one field the first change assigned.
\* (An undo that leaves one entry after at most three earlier user events
\* followed exactly two field changes and no other undo.)
UndoneSecondChange ==
    /\ todo = <<>>
    /\ op = "undo"
    /\ processed <= 4
    /\ Len(history) = 1

C25_UndoRestoresFirstMap ==
    UndoneSecondChange =>
        /\ Get(state, "formData").t = "ref"
        /\ Cardinality(DOMAIN objects[Get(state, "formData").n]) <= 1

\* C26: whatever happened to earlier batches, a set, update or delete made
\* outside a batch is delivered: every subscriber of its key and every
\* wildcard subscriber is called for it.
ChangedOutsideBatch ==
    ~inBatch /\ lastCall \in {"set", "update", "delete"} /\ PlainCallbacks

C26_DeliveryRestoredAfterThrow ==
    ChangedOutsideBatch =>
        Len(delivered) = Len(subscribers[history[Len(history)].key])
                             + Len(subscribers[WILDCARD])

\* C27: a state change made outside a batch while notifications are being
\* delivered (set, update, delete, setState, clear, or an undo that undid
\* something) calls every wildcard subscriber exactly once, and that one call
\* is the wildcard form callback(key, newValue, oldValue).
ChangeDelivered ==
    /\ ~inBatch
    /\ notifyMode = "deliver"
    /\ PlainCallbacks
    /\ \/ lastCall \in {"set", "update", "delete", "setState", "clear"}
       \/ lastCall = "undo" /\ undoResult

CallsTo(sub) == {i \in 1..Len(delivered) : delivered[i].sub = sub}

C27_WildcardNotifiedOnce ==
    ChangeDelivered =>
        \A k \in 1..Len(subscribers[WILDCARD]) :
            /\ Cardinality(CallsTo(subscribers[WILDCARD][k])) = 1
            /\ \A i \in CallsTo(subscribers[WILDCARD][k]) : delivered[i].wild

\* C28: a load of a key whose last save gave no TTL, and which has not been
\* removed or cleared since, returns the saved data at whatever time it is
\* made, whether or not an earlier save of the key gave a TTL.
SavedWithoutTTL(k) == lastSave[k] # NoSave /\ lastSave[k].ttl = 0

C28_NoTTLNeverExpires ==
    \A k \in StorageKeys :
        (returned.call = "load" /\ returned.key = k /\ SavedWithoutTTL(k)) =>
            returned.value = lastSave[k].data

\* C29: once a change of og_type has been processed, the controls on the page
\* are exactly the fields of the current category whose condition the new
\* formData meets.
TypeChangeProcessed ==
    /\ todo = <<>>
    /\ op = "formFieldChanged"
    /\ payload.field = "og_type"

C29_FormFollowsControllingField ==
    TypeChangeProcessed =>
        DOMAIN inputs = shown(currentCategory, objects[formData])

\* C30: at every moment the ToastNotification tracks at most maxToasts
\* toasts.
C30_AtMostMaxToasts == Len(toasts) <= maxToasts
====
